---- MODULE Spec2Model ----
(***************************************************************************)
(* The streaming-chat session state machine of cortexAI-desktop.           *)
(*                                                                         *)
(* The repository holds two revisions of the Chat component:               *)
(*   "Chat.tsx"  - src/src/Chat.tsx, listens on the global event names     *)
(*                 chat-response / chat-complete / chat-cancelled and      *)
(*                 performs the web search inside sendMessage;             *)
(*   "part_009"  - src/unnamed/part_009, listens on event names suffixed   *)
(*                 with its own instanceId and has no search in send.      *)
(* The variable revision is fixed by Init and says which one is running.   *)
(*                                                                         *)
(* TabManager (src/src/TabManager.tsx) renders <Chat> inside               *)
(* <Show when={tab.id === activeTabId()}>: exactly one Chat instance is    *)
(* mounted, the one of the active tab.  Activating another tab disposes    *)
(* the mounted instance and mounts a fresh one, whose signals start from   *)
(* their createSignal defaults.  The chat variables below are the signals  *)
(* of the mounted instance.  State of a disposed instance is not           *)
(* observable any more and is not kept.                                    *)
(*                                                                         *)
(* Text is a sequence of atoms (a string).  Concatenation is \o, the empty *)
(* string is << >>.  isPinned: undefined and false are both FALSE (the     *)
(* code only ever negates or filters on it).                               *)
(*                                                                         *)
(* The backend (Tauri commands and the events they emit) is not part of    *)
(* the sources; it follows section 6 of the specification.                 *)
(*                                                                         *)
(* Specifications: Spec (send, search, stream, cancel, tab switch),        *)
(* SpecDup (with redelivered events), SpecPin (pin toggles), SpecHist      *)
(* (chat creation and history loads under TabManager), SpecChats (the      *)
(* new-chat dialog, App's handleModelSelect), SpecFile (export, import),   *)
(* SpecApp (the App of src/unnamed/part_007, which keeps one Chat mounted  *)
(* while its chatId changes), SpecAcademic (searchAcademic of              *)
(* src/src/ContextIndicator.tsx) and SpecLive (Spec's flag operations with *)
(* a backend that ends every request).                                     *)
(***************************************************************************)
EXTENDS Integers, Sequences, FiniteSets, TLC

\* ---------------------------------------------------------------- bounds
MaxInstances == 3      \* Chat instances mounted in one run (tab activations)
MaxSends == 2          \* accepted sends in one run
MaxDeltas == 2         \* content-delta events of one generation
MaxPins == 2           \* pin toggles requested in one run
MaxRedeliveries == 1   \* terminal events delivered a second time in one run
MaxChats == 2          \* chats created in one run
MaxFeed == 6            \* entries one provider answers with
MaxTabs == 3           \* tabs created in one run
MaxDays == 32          \* days of a daily time series

\* combinedResults.slice(0, 10)
MaxAcademicResults == 10

\* .slice(0, 30) of fetchStockData
LastDays == 30

\* ------------------------------------------------------------ input sets
Tabs == {1, 2}
Revisions == {"Chat.tsx", "part_009"}
Whitespace == {" ", "\n"}
InputTexts == {<<" ", "q">>}
FollowUpPayloads == {"undefined", "suggestions"}
SearchResultSets == {<< >>, <<"[T](U)\nS">>}
ModeIds == {"offline", "web"}
ModelNames == <<"m1", "m2">>
StoredContents == {<<"h">>}

VARIABLES
  revision,         \* which revision of the Chat component is running
  activeTabId,      \* TabManager: id of the active tab
  instanceId,       \* identity of the mounted Chat instance
  messages, currentInput, isGenerating, currentResponse, error, followUps,
  mode, searchMode, \* signals of the mounted Chat instance
  requests,         \* every accepted send: its search / generation request
  pins,             \* toggle_message_pin calls awaiting their result
  pinCount,         \* number of toggles requested so far
  redeliveries,     \* number of terminal events delivered a second time
  tabChatId,        \* TabManager: chatId of every tab ("null" or a chat id)
  loads,            \* get_chat_messages calls of the mounted instance
                    \* awaiting their result
  creating,         \* a create_chat call of the mounted instance is pending
  chatCount,        \* number of chats created so far
  showNewChatDialog, selectedModel,
                    \* signals of the mounted Chat instance: new-chat dialog
  tabModelName,     \* TabManager: modelName of every tab
  onNewChatLog,     \* history: the calls of props.onNewChat, in order
  fileOp,           \* the await handleExport / handleImport of the mounted
                    \* instance is waiting at ("none" when there is none)
  app,              \* App: its signals and its pending create_chat call
  arxiv, crossref,  \* the provider calls of the running searchAcademic
  academic,         \* the searchAcademic call
  modelParams, showSettings,
                    \* signals of the mounted Chat instance: settings
  chatSettings,     \* the signals of the ChatSettings in the open panel
  settingsRevision, \* which revision of the ChatSettings component is built
  tabManager,       \* TabManager: its tab list, active tab and dragged tab
  localStorage,     \* what TabManager has saved
  stock,            \* the fetchStockData call
  deltaLog,         \* history: delta texts delivered since the last dispatch
  logValid,         \* history: that dispatch found the buffer empty and only
                    \*          content-delta events were delivered since
  logReq            \* history: the request of that dispatch

chatVars == <<messages, currentInput, isGenerating, currentResponse, error,
              followUps, mode, searchMode>>
logVars == <<deltaLog, logValid, logReq>>
histVars == <<tabChatId, loads, creating, chatCount>>
sessionVars == <<revision, activeTabId, instanceId, chatVars, requests, pins,
                 pinCount, redeliveries, logVars>>
dialogVars == <<showNewChatDialog, selectedModel, tabModelName, onNewChatLog>>
academicVars == <<arxiv, crossref, academic>>
settingsVars == <<modelParams, showSettings, chatSettings, settingsRevision>>
tabVars == <<tabManager, localStorage>>
hostVars == <<histVars, dialogVars, fileOp, app, academicVars, settingsVars,
              tabVars, stock>>
vars == <<revision, activeTabId, instanceId, messages, currentInput,
          isGenerating, currentResponse, error, followUps, mode, searchMode,
          requests, pins, pinCount, redeliveries, tabChatId, loads, creating,
          chatCount, showNewChatDialog, selectedModel, tabModelName,
          onNewChatLog, fileOp, app, arxiv, crossref, academic,
          modelParams, showSettings, chatSettings, settingsRevision,
          tabManager, localStorage, stock,
          deltaLog, logValid, logReq>>

\* ------------------------------------------------------------- text
IsBlank(s) == \A i \in 1..Len(s) : s[i] \in Whitespace

RECURSIVE TrimStart(_)
TrimStart(s) ==
  IF s = << >> THEN << >>
  ELSE IF Head(s) \in Whitespace THEN TrimStart(Tail(s)) ELSE s

RECURSIVE TrimEnd(_)
TrimEnd(s) ==
  IF s = << >> THEN << >>
  ELSE IF s[Len(s)] \in Whitespace THEN TrimEnd(SubSeq(s, 1, Len(s) - 1))
  ELSE s

\* String.prototype.trim
Trim(s) == TrimEnd(TrimStart(s))

\* the concatenation of a sequence of texts
RECURSIVE Flatten(_)
Flatten(ts) == IF ts = << >> THEN << >> ELSE Head(ts) \o Flatten(Tail(ts))

CancelledMarker == <<"\n", "[Generation cancelled]">>

\* The text of the k-th content-delta event of request n.  Every delta is a
\* token of its own, so that a dropped, repeated, reordered or foreign
\* delta shows in the text; the first delta of a generation is white space.
DeltaText(n, k) ==
  IF k = 1 THEN <<" ">> ELSE <<"delta" \o ToString(n) \o "." \o ToString(k)>>

\* the text request n has streamed after k deltas
RECURSIVE Streamed(_, _)
Streamed(n, k) == IF k = 0 THEN << >> ELSE Streamed(n, k - 1) \o DeltaText(n, k)

\* ------------------------------------------------------------- focus modes
\* focusModes, reduced to id and capabilities.webSearch
focusModes ==
  << [id |-> "chat", webSearch |-> FALSE],
     [id |-> "web", webSearch |-> TRUE],
     [id |-> "academic", webSearch |-> TRUE],
     [id |-> "coding", webSearch |-> TRUE] >>

getCurrentModeOf(m) ==
  IF \E i \in 1..Len(focusModes) : focusModes[i].id = m
  THEN focusModes[CHOOSE i \in 1..Len(focusModes) :
                    /\ focusModes[i].id = m
                    /\ \A j \in 1..(i - 1) : focusModes[j].id # m]
  ELSE focusModes[1]

getCurrentMode == getCurrentModeOf(mode)

isWebSearchEnabled == getCurrentMode.webSearch

\* mutant: the effect does not choose "general" when web search comes on
SearchModeEffect_keepEmpty(m, sm) ==
  IF ~getCurrentModeOf(m).webSearch THEN "" ELSE sm

\* the createEffect that keeps searchMode in step with the focus mode
SearchModeEffect(m, sm) ==
  IF ~getCurrentModeOf(m).webSearch THEN ""
  ELSE IF sm = "" THEN "general" ELSE sm

\* ------------------------------------------------------------- messages
UserMessageChatTsx(content, modeId) ==
  [role |-> "user", content |-> content, isPinned |-> FALSE,
   hasId |-> TRUE, systemPromptType |-> modeId]

UserMessagePart009(content) ==
  [role |-> "user", content |-> content, isPinned |-> FALSE,
   hasId |-> FALSE, systemPromptType |-> "undefined"]

AssistantMessage(content) ==
  [role |-> "assistant", content |-> content, isPinned |-> FALSE,
   hasId |-> FALSE, systemPromptType |-> "undefined"]

SystemMessage(content) ==
  [role |-> "system", content |-> content, isPinned |-> FALSE,
   hasId |-> FALSE, systemPromptType |-> "undefined"]

RECURSIVE JoinCitations(_)
JoinCitations(rs) ==
  IF rs = << >> THEN << >>
  ELSE IF Len(rs) = 1 THEN <<rs[1]>>
  ELSE <<rs[1], "\n\n">> \o JoinCitations(Tail(rs))

\* the prompt of the synthesized context message
SearchPrompt(sm, userInput, results) ==
  IF sm = "academic"
  THEN <<"academic prompt", "Query:">> \o userInput
         \o <<"Sources:">> \o JoinCitations(results)
  ELSE <<"general prompt", "Query:">> \o userInput
         \o <<"Search Results:">> \o JoinCitations(results)

\* the id create_chat returns for the k-th chat
NewChatId(k) == "chat" \o ToString(k)

\* a message as get_chat_messages returns it: stored messages have an id
StoredMessage(content) ==
  [role |-> "user", content |-> content, isPinned |-> FALSE,
   hasId |-> TRUE, systemPromptType |-> "undefined"]

\* the histories get_chat_messages may return
Histories == {<< >>} \cup {<<StoredMessage(c)>> : c \in StoredContents}

\* ------------------------------------------------------------- settings
\* the initial modelParams of Chat, which are also the initial signals of
\* ChatSettings.tsx; a number is written as its decimal text
DefaultParams ==
  [temperature |-> "0.7", top_p |-> "0.9", top_k |-> "40",
   repeat_penalty |-> "1.1", max_tokens |-> "2048"]

\* no parameters: of a request that has not been dispatched, and the signals
\* of a ChatSettings that is not mounted
NoParams == [p \in DOMAIN DefaultParams |-> ""]

\* the positions the sliders are moved to
SliderValues ==
  [temperature |-> {"0.7", "1.5"}, top_p |-> {"0.9", "0.5"},
   top_k |-> {"40", "10"}, repeat_penalty |-> {"1.1", "1.5"},
   max_tokens |-> {"2048", "512"}]

SettingsRevisions == {"ChatSettings.tsx", "FocusModeConfig.ts"}

\* ------------------------------------------------------------- requests
\* a call that is not running: of searchAcademic, searchArxiv, searchCrossref
NoCall == [state |-> "idle", failed |-> FALSE, results |-> << >>]

InFlight == {"requested", "streaming"}
Finalized == {"complete", "cancelled", "rejected"}

NewRequest(phase, userMessage, sm, msgs, prior) ==
  [inst |-> instanceId, tab |-> activeTabId, phase |-> phase,
   userMessage |-> userMessage, searchMode |-> sm,
   webSearch |-> (phase = "search"),
   params |-> IF phase = "requested" THEN modelParams ELSE NoParams,
   msgs |-> msgs, prior |-> prior, snap |-> << >>,
   emitted |-> 0, cancelReq |-> FALSE, away |-> FALSE,
   chatId |-> tabChatId[activeTabId]]

\* a request that has ended: what it carried is dropped, what it streamed
\* is kept for a completed one
EndedRequest(r, phase) ==
  [inst |-> r.inst, tab |-> r.tab, phase |-> phase,
   userMessage |-> UserMessagePart009(<< >>), searchMode |-> "",
   webSearch |-> FALSE, params |-> NoParams,
   msgs |-> << >>, prior |-> << >>, snap |-> << >>,
   emitted |-> IF phase = "complete" THEN r.emitted ELSE 0,
   cancelReq |-> FALSE, away |-> r.away, chatId |-> "null"]

Reqs == 1..Len(requests)

\* the listeners of the mounted instance receive the events of request n
Listening(n) ==
  IF revision = "Chat.tsx" THEN TRUE ELSE requests[n].inst = instanceId

\* nothing saved by TabManager
NoStorage == [saved |-> "absent", tabs |-> << >>, activeTab |-> "absent"]

\* a response that has not arrived
NoData == [has |-> FALSE, series |-> << >>]

\* ------------------------------------------------------------- Init
InitState(settings) ==
  /\ revision \in Revisions
  /\ activeTabId \in Tabs
  /\ instanceId = 1
  /\ messages = << >>
  /\ currentInput = << >>
  /\ isGenerating = FALSE
  /\ currentResponse = << >>
  /\ error = "undefined"
  /\ followUps = << >>
  /\ mode = "offline"
  /\ searchMode = ""
  /\ requests = << >>
  /\ pins = {}
  /\ pinCount = 0
  /\ redeliveries = 0
  /\ tabChatId = [t \in Tabs |-> "null"]
  /\ loads = {}
  /\ creating = FALSE
  /\ chatCount = 0
  /\ showNewChatDialog = FALSE
  /\ selectedModel = ""
  /\ tabModelName = [t \in Tabs |-> ""]
  /\ onNewChatLog = << >>
  /\ fileOp = "none"
  /\ app = [pending |-> "", selectedModel |-> "null",
            selectedChatId |-> "null", showModelList |-> TRUE]
  /\ arxiv = NoCall
  /\ crossref = NoCall
  /\ academic = NoCall
  /\ modelParams = DefaultParams
  /\ showSettings = FALSE
  /\ chatSettings = NoParams
  /\ settingsRevision = settings
  /\ tabManager = [mounted |-> FALSE, tabs |-> << >>, activeTabId |-> "null",
                   draggedTabId |-> "null", created |-> 0]
  /\ localStorage = NoStorage
  /\ stock = [state |-> "idle", data |-> NoData, result |-> << >>]
  /\ deltaLog = << >>
  /\ logValid = FALSE
  /\ logReq = 0

\* the build has the ChatSettings.tsx of the import path
Init == InitState("ChatSettings.tsx")

\* either revision of ChatSettings
InitSettings == \E settings \in SettingsRevisions : InitState(settings)

\* ------------------------------------------------- listeners, Chat.tsx
\* mutant: the delta is put in front of the buffer
ChatTsx_onChatResponse_prepend(content) ==
  /\ currentResponse' = content \o currentResponse
  /\ UNCHANGED <<messages, currentInput, isGenerating, error, followUps,
                 mode, searchMode>>

\* listen("chat-response")
ChatTsx_onChatResponse(content) ==
  /\ currentResponse' = currentResponse \o content
  /\ UNCHANGED <<messages, currentInput, isGenerating, error, followUps,
                 mode, searchMode>>

\* mutant: the final message replaces the list instead of being appended
ChatTsx_onChatComplete_replace(follow_ups) ==
  /\ messages' = IF Trim(currentResponse) # << >>
                 THEN <<AssistantMessage(currentResponse)>>
                 ELSE messages
  /\ currentResponse' = << >>
  /\ followUps' = IF follow_ups = "undefined" THEN << >>
                  ELSE <<"follow-up">>
  /\ isGenerating' = FALSE
  /\ UNCHANGED <<currentInput, error, mode, searchMode>>

\* listen("chat-complete"); follow_ups is "undefined" or "suggestions"
ChatTsx_onChatComplete(follow_ups) ==
  LET finalResponse == currentResponse IN
  /\ messages' = IF Trim(finalResponse) # << >>
                 THEN Append(messages, AssistantMessage(finalResponse))
                 ELSE messages
  /\ currentResponse' = << >>
  /\ followUps' = IF follow_ups = "undefined" THEN << >>
                  ELSE <<"follow-up">>
  /\ isGenerating' = FALSE
  /\ UNCHANGED <<currentInput, error, mode, searchMode>>

\* mutant: the cancelled event leaves the flag set
ChatTsx_onChatCancelled_stuck ==
  /\ currentResponse' = currentResponse \o CancelledMarker
  /\ UNCHANGED <<messages, currentInput, error, followUps, mode, searchMode,
                 isGenerating>>

\* listen("chat-cancelled")
ChatTsx_onChatCancelled ==
  /\ isGenerating' = FALSE
  /\ currentResponse' = currentResponse \o CancelledMarker
  /\ UNCHANGED <<messages, currentInput, error, followUps, mode, searchMode>>

\* ------------------------------------------------- listeners, part_009
\* listen(`chat-response-${instanceId()}`)
Part009_onChatResponse(content) ==
  /\ currentResponse' = IF content # << >> THEN currentResponse \o content
                        ELSE currentResponse
  /\ UNCHANGED <<messages, currentInput, isGenerating, error, followUps,
                 mode, searchMode>>

\* listen(`chat-complete-${instanceId()}`); content is
\* event.payload.message.content
Part009_onChatComplete(content, follow_ups) ==
  /\ messages' = Append(messages, AssistantMessage(content))
  /\ currentResponse' = << >>
  /\ isGenerating' = FALSE
  /\ followUps' = IF follow_ups # "undefined" THEN <<"follow-up">>
                  ELSE followUps
  /\ UNCHANGED <<currentInput, error, mode, searchMode>>

\* mutant: the buffer is committed without the test for emptiness
Part009_onChatCancelled_always ==
  /\ isGenerating' = FALSE
  /\ messages' = Append(messages, AssistantMessage(currentResponse))
  /\ currentResponse' = << >>
  /\ UNCHANGED <<currentInput, error, followUps, mode, searchMode>>

\* listen(`chat-cancelled-${instanceId()}`)
Part009_onChatCancelled ==
  /\ isGenerating' = FALSE
  /\ IF currentResponse # << >>
     THEN /\ messages' = Append(messages, AssistantMessage(currentResponse))
          /\ currentResponse' = << >>
     ELSE UNCHANGED <<messages, currentResponse>>
  /\ UNCHANGED <<currentInput, error, followUps, mode, searchMode>>

\* the listener of the running revision
OnChatResponse(content) ==
  IF revision = "Chat.tsx" THEN ChatTsx_onChatResponse(content)
  ELSE Part009_onChatResponse(content)

OnChatComplete(content, follow_ups) ==
  IF revision = "Chat.tsx" THEN ChatTsx_onChatComplete(follow_ups)
  ELSE Part009_onChatComplete(content, follow_ups)

OnChatCancelled ==
  IF revision = "Chat.tsx" THEN ChatTsx_onChatCancelled
  ELSE Part009_onChatCancelled

\* history variables at a dispatch by the mounted instance
LogDispatch(n) ==
  /\ logValid' = (currentResponse = << >>)
  /\ deltaLog' = << >>
  /\ logReq' = IF currentResponse = << >> THEN n ELSE 0

LogReset ==
  /\ logValid' = FALSE
  /\ deltaLog' = << >>
  /\ logReq' = 0

\* ------------------------------------------------- sendMessage, Chat.tsx
\* up to the first await: invoke("search") or invoke("chat")
ChatTsx_sendMessage ==
  LET userInput == Trim(currentInput)
      currentMode == getCurrentMode
      userMessage == UserMessageChatTsx(userInput, currentMode.id)
      shouldUseWebSearch == isWebSearchEnabled
      n == Len(requests) + 1
      sent == Append(messages, userMessage)
  IN
  /\ userInput # << >>
  /\ ~isGenerating
  /\ n <= MaxSends
  /\ currentInput' = << >>
  /\ isGenerating' = TRUE
  /\ error' = "undefined"
  /\ IF shouldUseWebSearch
     THEN /\ requests' = Append(requests,
               NewRequest("search", userMessage, searchMode, << >>, << >>))
          /\ UNCHANGED <<messages, logVars>>
     ELSE /\ messages' = sent
          /\ requests' = Append(requests,
               NewRequest("requested", userMessage, searchMode,
                          sent \o <<userMessage>>, messages))
          /\ LogDispatch(n)
  /\ UNCHANGED <<currentResponse, followUps, mode, searchMode>>

\* mutant: a search that found nothing is treated as a failed search
ChatTsx_sendMessage_searchResolved_emptyFails(n, results) ==
  LET r == requests[n]
      live == r.inst = instanceId
      before == IF live THEN messages ELSE r.snap
      sm == IF live THEN searchMode ELSE r.searchMode
      sent == Append(before, r.userMessage)
      searchPrompt == SearchPrompt(sm, r.userMessage.content, results)
  IN
  /\ r.phase = "search"
  /\ IF results = << >>
     THEN /\ requests' = [requests EXCEPT ![n] = EndedRequest(r, "searchFailed")]
          /\ IF live
             THEN /\ error' = "Search failed"
                  /\ isGenerating' = FALSE
             ELSE UNCHANGED <<error, isGenerating>>
          /\ UNCHANGED <<messages, logVars>>
     ELSE /\ requests' = [requests EXCEPT ![n].phase = "requested",
                            ![n].msgs = sent \o <<r.userMessage,
                                                  SystemMessage(searchPrompt)>>,
                            ![n].prior = before,
                            ![n].params = IF live THEN modelParams
                                          ELSE r.params]
          /\ IF live
             THEN /\ messages' = sent
                  /\ LogDispatch(n)
             ELSE UNCHANGED <<messages, logVars>>
          /\ UNCHANGED <<isGenerating, error>>
  /\ UNCHANGED <<currentInput, currentResponse, followUps, mode, searchMode>>

\* invoke("search") resolved: the context message is built and
\* invoke("chat") is called
ChatTsx_sendMessage_searchResolved(n, results) ==
  LET r == requests[n]
      live == r.inst = instanceId
      before == IF live THEN messages ELSE r.snap
      sm == IF live THEN searchMode ELSE r.searchMode
      sent == Append(before, r.userMessage)
      searchPrompt == SearchPrompt(sm, r.userMessage.content, results)
  IN
  /\ r.phase = "search"
  /\ requests' = [requests EXCEPT ![n].phase = "requested",
                    ![n].msgs = sent \o <<r.userMessage,
                                          SystemMessage(searchPrompt)>>,
                    ![n].prior = before,
                    ![n].params = IF live THEN modelParams ELSE r.params]
  /\ IF live
     THEN /\ messages' = sent
          /\ LogDispatch(n)
     ELSE UNCHANGED <<messages, logVars>>
  /\ UNCHANGED <<currentInput, isGenerating, currentResponse, error,
                 followUps, mode, searchMode>>

\* mutant: a failed search falls back to a chat call without context
ChatTsx_sendMessage_searchRejected_fallback(n) ==
  LET r == requests[n]
      sent == Append(messages, r.userMessage)
  IN
  /\ r.phase = "search"
  /\ requests' = [requests EXCEPT ![n].phase = "requested",
                    ![n].msgs = sent \o <<r.userMessage>>,
                    ![n].prior = messages,
                    ![n].params = modelParams]
  /\ IF r.inst = instanceId THEN messages' = sent ELSE UNCHANGED messages
  /\ UNCHANGED <<error, isGenerating, currentInput, currentResponse,
                 followUps, mode, searchMode, logVars>>

\* mutant: a failed search reports the error and leaves the flag set
ChatTsx_sendMessage_searchRejected_stuck(n) ==
  LET r == requests[n] IN
  /\ r.phase = "search"
  /\ requests' = [requests EXCEPT ![n] = EndedRequest(r, "searchFailed")]
  /\ IF r.inst = instanceId
     THEN /\ error' = "Search failed"
          /\ UNCHANGED isGenerating
     ELSE UNCHANGED <<error, isGenerating>>
  /\ UNCHANGED <<messages, currentInput, currentResponse, followUps, mode,
                 searchMode, logVars>>

\* invoke("search") rejected: catch (searchError)
ChatTsx_sendMessage_searchRejected(n) ==
  LET r == requests[n] IN
  /\ r.phase = "search"
  /\ requests' = [requests EXCEPT ![n] = EndedRequest(r, "searchFailed")]
  /\ IF r.inst = instanceId
     THEN /\ error' = "Search failed"
          /\ isGenerating' = FALSE
     ELSE UNCHANGED <<error, isGenerating>>
  /\ UNCHANGED <<messages, currentInput, currentResponse, followUps, mode,
                 searchMode, logVars>>

\* invoke("chat") rejected: with web search the call sits inside the inner
\* try, whose catch reports a search failure
ChatTsx_sendMessage_chatRejected(n) ==
  /\ error' = IF requests[n].webSearch THEN "Search failed"
              ELSE "Failed to send message"
  /\ isGenerating' = FALSE
  /\ UNCHANGED <<messages, currentInput, currentResponse, followUps, mode,
                 searchMode>>

\* ------------------------------------------------- sendMessage, part_009
Part009_sendMessage ==
  LET input == Trim(currentInput)
      newMessage == UserMessagePart009(input)
      n == Len(requests) + 1
      sent == Append(messages, newMessage)
  IN
  /\ input # << >>
  /\ ~isGenerating
  /\ n <= MaxSends
  /\ currentInput' = << >>
  /\ isGenerating' = TRUE
  /\ followUps' = << >>
  /\ error' = "undefined"
  /\ messages' = sent
  /\ requests' = Append(requests,
       NewRequest("requested", newMessage, searchMode,
                  sent \o <<newMessage>>, messages))
  /\ LogDispatch(n)
  /\ UNCHANGED <<currentResponse, mode, searchMode>>

\* mutant: the catch reports the error and leaves the flag set
Part009_sendMessage_chatRejected_stuck(n) ==
  /\ error' = "Failed to send message"
  /\ UNCHANGED <<messages, currentInput, isGenerating, currentResponse,
                 followUps, mode, searchMode>>

\* invoke("chat") rejected: catch (e)
Part009_sendMessage_chatRejected(n) ==
  /\ error' = "Failed to send message"
  /\ isGenerating' = FALSE
  /\ UNCHANGED <<messages, currentInput, currentResponse, followUps, mode,
                 searchMode>>

\* ------------------------------------------------- toggleMessagePin
\* up to the await: the message id is read and the backend is called
toggleMessagePin(index) ==
  /\ index \in 1..Len(messages)
  /\ pinCount < MaxPins
  /\ pinCount' = pinCount + 1
  /\ pins' = pins \cup {[k |-> pinCount + 1, index |-> index,
                         hasId |-> messages[index].hasId,
                         message |-> messages[index]]}
  /\ UNCHANGED chatVars

\* mutant: the flag is set instead of negated
toggleMessagePin_resolved_set(p) ==
  /\ pins' = pins \ {p}
  /\ IF p.index \in 1..Len(messages)
     THEN /\ messages' = [messages EXCEPT ![p.index].isPinned = TRUE]
          /\ UNCHANGED error
     ELSE /\ error' = "Failed to toggle message pin"
          /\ UNCHANGED messages
  /\ UNCHANGED <<currentInput, isGenerating, currentResponse, followUps,
                 mode, searchMode, pinCount>>

\* invoke("toggle_message_pin") resolved: the setMessages updater; reading
\* isPinned of a missing element throws inside the try block
toggleMessagePin_resolved(p) ==
  /\ pins' = pins \ {p}
  /\ IF p.index \in 1..Len(messages)
     THEN /\ messages' = [messages EXCEPT
                            ![p.index].isPinned = ~messages[p.index].isPinned]
          /\ UNCHANGED error
     ELSE /\ error' = "Failed to toggle message pin"
          /\ UNCHANGED messages
  /\ UNCHANGED <<currentInput, isGenerating, currentResponse, followUps,
                 mode, searchMode, pinCount>>

\* mutant: the flag is flipped although the backend refused
toggleMessagePin_rejected_flip(p) ==
  /\ pins' = pins \ {p}
  /\ error' = "Failed to toggle message pin"
  /\ messages' = IF p.index \in 1..Len(messages)
                 THEN [messages EXCEPT
                         ![p.index].isPinned = ~messages[p.index].isPinned]
                 ELSE messages
  /\ UNCHANGED <<currentInput, isGenerating, currentResponse,
                 followUps, mode, searchMode, pinCount>>

\* invoke("toggle_message_pin") rejected: catch (error)
toggleMessagePin_rejected(p) ==
  /\ pins' = pins \ {p}
  /\ error' = "Failed to toggle message pin"
  /\ UNCHANGED <<messages, currentInput, isGenerating, currentResponse,
                 followUps, mode, searchMode, pinCount>>

\* backend toggle-pin: an absent or unknown message id is refused
TogglePinMaySucceed(p) == p.hasId

\* ------------------------------------------------- user operations
\* onInput of the text field
SetCurrentInput(v) ==
  /\ currentInput' = v
  /\ UNCHANGED <<revision, activeTabId, instanceId, messages, isGenerating,
                 currentResponse, error, followUps, mode, searchMode,
                 requests, pins, pinCount, redeliveries, logVars>>
  /\ UNCHANGED hostVars

\* ChatSettings onSearchModeChange; the effect runs again only if its last
\* run read searchMode, which it does when web search is enabled
setSearchMode(v) ==
  /\ searchMode' = IF isWebSearchEnabled THEN SearchModeEffect(mode, v) ELSE v
  /\ UNCHANGED <<revision, activeTabId, instanceId, messages, currentInput,
                 isGenerating, currentResponse, error, followUps, mode,
                 requests, pins, pinCount, redeliveries, logVars>>
  /\ UNCHANGED hostVars

\* FocusMode onModeChange, followed by the searchMode effect
SetMode(newMode) ==
  /\ mode' = newMode
  /\ searchMode' = SearchModeEffect(newMode, searchMode)
  /\ UNCHANGED <<revision, activeTabId, instanceId, messages, currentInput,
                 isGenerating, currentResponse, error, followUps,
                 requests, pins, pinCount, redeliveries, logVars>>
  /\ UNCHANGED hostVars

\* the suggestions are rendered only when no response is being shown
handleFollowUpSelect ==
  /\ ~isGenerating
  /\ currentResponse = << >>
  /\ followUps # << >>
  /\ currentInput' = <<followUps[1]>>
  /\ followUps' = << >>
  /\ UNCHANGED <<revision, activeTabId, instanceId, messages, isGenerating,
                 currentResponse, error, mode, searchMode,
                 requests, pins, pinCount, redeliveries, logVars>>
  /\ UNCHANGED hostVars

SendMessage ==
  /\ IF revision = "Chat.tsx" THEN ChatTsx_sendMessage
     ELSE Part009_sendMessage
  /\ UNCHANGED <<revision, activeTabId, instanceId, pins, pinCount, redeliveries>>
  /\ UNCHANGED hostVars

SearchResolved(n, results) ==
  /\ revision = "Chat.tsx"
  /\ ChatTsx_sendMessage_searchResolved(n, results)
  /\ UNCHANGED <<revision, activeTabId, instanceId, pins, pinCount, redeliveries>>
  /\ UNCHANGED hostVars

SearchRejected(n) ==
  /\ revision = "Chat.tsx"
  /\ ChatTsx_sendMessage_searchRejected(n)
  /\ UNCHANGED <<revision, activeTabId, instanceId, pins, pinCount, redeliveries>>
  /\ UNCHANGED hostVars

TogglePin(index) ==
  /\ toggleMessagePin(index)
  /\ UNCHANGED <<revision, activeTabId, instanceId, requests, redeliveries,
                 logVars>>
  /\ UNCHANGED hostVars

TogglePinResolved(p) ==
  /\ TogglePinMaySucceed(p)
  /\ toggleMessagePin_resolved(p)
  /\ UNCHANGED <<revision, activeTabId, instanceId, requests, redeliveries,
                 logVars>>
  /\ UNCHANGED hostVars

TogglePinRejected(p) ==
  /\ toggleMessagePin_rejected(p)
  /\ UNCHANGED <<revision, activeTabId, instanceId, requests, redeliveries,
                 logVars>>
  /\ UNCHANGED hostVars

\* the send button calls handleCancelGeneration while isGenerating();
\* cancel_chat_generation carries no argument: the backend stops one of the
\* generations that are running, or refuses
handleCancelGeneration(n, ok) ==
  /\ isGenerating
  /\ requests[n].phase \in InFlight
  /\ IF ok
     THEN /\ ~requests[n].cancelReq
          /\ requests' = [requests EXCEPT ![n].cancelReq = TRUE]
          /\ UNCHANGED error
     ELSE /\ error' = "Failed to cancel generation"
          /\ UNCHANGED requests
  /\ UNCHANGED <<revision, activeTabId, instanceId, messages, currentInput,
                 isGenerating, currentResponse, followUps, mode, searchMode,
                 pins, pinCount, redeliveries, logVars>>
  /\ UNCHANGED hostVars

\* ------------------------------------------------- TabManager
\* the get_chat_messages calls a Chat makes when it is mounted with chatId
\* cid: the chatId effect of both revisions, and onMount of part_009
LoadsAtMount(cid) ==
  IF cid = "null" THEN {}
  ELSE IF revision = "Chat.tsx" THEN {[site |-> "effect", chatId |-> cid]}
  ELSE {[site |-> "effect", chatId |-> cid],
        [site |-> "onMount", chatId |-> cid]}

\* The mounted Chat is disposed and a Chat is created with props.chatId cid
\* and props.modelName modelName (createSignal defaults, a fresh
\* instanceId); its effects run: the chatId effect, and the effect that
\* sets selectedModel to props.modelName while the dialog is closed.
MountChat(cid, modelName) ==
  /\ instanceId < MaxInstances
  /\ instanceId' = instanceId + 1
  /\ messages' = << >>
  /\ currentInput' = << >>
  /\ isGenerating' = FALSE
  /\ currentResponse' = << >>
  /\ error' = "undefined"
  /\ followUps' = << >>
  /\ mode' = "offline"
  /\ searchMode' = SearchModeEffect("offline", "")
  /\ requests' = [n \in Reqs |->
       IF requests[n].inst # instanceId THEN requests[n]
       ELSE [requests[n] EXCEPT
               !.snap = IF requests[n].phase = "search" THEN messages ELSE @,
               !.params = IF requests[n].phase = "search" THEN modelParams
                          ELSE @,
               !.away = @ \/ requests[n].phase \in InFlight \cup {"search"}]]
  /\ pins' = {}
  /\ loads' = LoadsAtMount(cid)
  /\ creating' = FALSE
  /\ showNewChatDialog' = FALSE
  /\ selectedModel' = modelName
  /\ fileOp' = "none"
  /\ modelParams' = DefaultParams
  /\ showSettings' = FALSE
  /\ chatSettings' = NoParams
  /\ UNCHANGED settingsRevision
  /\ LogReset

\* onClick of a tab / Cmd+digit: setActiveTabId.  The Chat of the old tab
\* is disposed and a Chat for the new tab is mounted.
setActiveTabId(tabId) ==
  /\ tabId # activeTabId
  /\ activeTabId' = tabId
  /\ MountChat(tabChatId[tabId], tabModelName[tabId])
  /\ UNCHANGED <<revision, pinCount, redeliveries, tabChatId, chatCount,
                 tabModelName, onNewChatLog, app, academicVars, tabVars, stock>>

\* props.onNewChat(chatId, model) of the Chat in tab tabId: TabManager's
\* handleNewChat puts chatId and model into a new tab object, for which
\* <For> creates a new row: the Chat of that tab is mounted anew.
handleNewChat(chatId, model, tabId) ==
  /\ tabChatId' = [tabChatId EXCEPT ![tabId] = chatId]
  /\ tabModelName' = [tabModelName EXCEPT ![tabId] = model]
  /\ onNewChatLog' = Append(onNewChatLog,
                            [chatId |-> chatId, model |-> model,
                             tabId |-> tabId])
  /\ MountChat(chatId, model)

\* ------------------------------------------------- new-chat dialog
\* "New Chat" button: setShowNewChatDialog(true)
openNewChatDialog ==
  /\ ~showNewChatDialog
  /\ showNewChatDialog' = TRUE
  /\ UNCHANGED <<revision, activeTabId, instanceId, chatVars, requests, pins,
                 pinCount, redeliveries, histVars, selectedModel,
                 tabModelName, onNewChatLog, fileOp, app, academicVars, settingsVars, tabVars, stock,
                 logVars>>

\* "Cancel" in the dialog: setShowNewChatDialog(false); the effect on the
\* closed dialog sets selectedModel back to props.modelName
closeNewChatDialog ==
  /\ showNewChatDialog
  /\ showNewChatDialog' = FALSE
  /\ selectedModel' = tabModelName[activeTabId]
  /\ UNCHANGED <<revision, activeTabId, instanceId, chatVars, requests, pins,
                 pinCount, redeliveries, histVars, tabModelName,
                 onNewChatLog, fileOp, app, academicVars, settingsVars, tabVars, stock, logVars>>

\* list_models, called by the effect on the open dialog, resolved: the
\* first model is selected if none is
loadModels_resolved ==
  /\ showNewChatDialog
  /\ selectedModel = ""
  /\ selectedModel' = ModelNames[1]
  /\ UNCHANGED <<revision, activeTabId, instanceId, chatVars, requests, pins,
                 pinCount, redeliveries, histVars, showNewChatDialog,
                 tabModelName, onNewChatLog, fileOp, app, academicVars, settingsVars, tabVars, stock,
                 logVars>>

\* onChange of the dialog's select
setSelectedModel(modelName) ==
  /\ showNewChatDialog
  /\ selectedModel # modelName
  /\ selectedModel' = modelName
  /\ UNCHANGED <<revision, activeTabId, instanceId, chatVars, requests, pins,
                 pinCount, redeliveries, histVars, showNewChatDialog,
                 tabModelName, onNewChatLog, fileOp, app, academicVars, settingsVars, tabVars, stock,
                 logVars>>

\* ------------------------------------------------- chats and history
\* "Create" in the new-chat dialog: invoke("create_chat")
startNewChat ==
  /\ showNewChatDialog
  /\ ~creating
  /\ chatCount < MaxChats
  /\ creating' = TRUE
  /\ UNCHANGED <<revision, activeTabId, instanceId, chatVars, requests, pins,
                 pinCount, redeliveries, tabChatId, loads, chatCount, logVars,
                 dialogVars, fileOp, app, academicVars, settingsVars, tabVars, stock>>

\* create_chat resolved with a chat that has an id: props.onNewChat is
\* called with the id and selectedModel().  Under TabManager the Chat is
\* mounted anew with the new chatId; the setters that follow in
\* startNewChat act on the disposed instance.
startNewChat_resolved ==
  /\ creating
  /\ chatCount' = chatCount + 1
  /\ handleNewChat(NewChatId(chatCount + 1), selectedModel, activeTabId)
  /\ UNCHANGED <<revision, activeTabId, pinCount, redeliveries, app,
                 academicVars, settingsVars, tabVars, stock>>

\* mutant: the catch also closes the dialog
startNewChat_rejected_closes ==
  /\ creating
  /\ creating' = FALSE
  /\ error' = "Failed to create new chat"
  /\ showNewChatDialog' = FALSE
  /\ UNCHANGED <<revision, activeTabId, instanceId, messages, currentInput,
                 isGenerating, currentResponse, followUps, mode, searchMode,
                 requests, pins, pinCount, redeliveries, tabChatId, loads,
                 chatCount, logVars, selectedModel, tabModelName,
                 onNewChatLog, fileOp, app, academicVars, settingsVars, tabVars, stock>>

\* create_chat rejected, or resolved with no chat or no id (the throw):
\* catch (e)
startNewChat_rejected ==
  /\ creating
  /\ creating' = FALSE
  /\ error' = "Failed to create new chat"
  /\ UNCHANGED <<revision, activeTabId, instanceId, messages, currentInput,
                 isGenerating, currentResponse, followUps, mode, searchMode,
                 requests, pins, pinCount, redeliveries, tabChatId, loads,
                 chatCount, logVars, dialogVars, fileOp, app, academicVars, settingsVars, tabVars, stock>>

\* get_chat_messages resolved with chatMessages
HistoryResolved(l, chatMessages) ==
  /\ l \in loads
  /\ loads' = loads \ {l}
  /\ messages' = chatMessages
  /\ IF l.site = "effect"
     THEN /\ error' = "undefined"
          /\ currentResponse' = << >>
     ELSE UNCHANGED <<error, currentResponse>>
  /\ LogReset
  /\ UNCHANGED <<revision, activeTabId, instanceId, currentInput,
                 isGenerating, followUps, mode, searchMode, requests, pins,
                 pinCount, redeliveries, tabChatId, creating, chatCount,
                 dialogVars, fileOp, app, academicVars, settingsVars, tabVars, stock>>

\* get_chat_messages rejected: the effect's catch sets the error, the one
\* of onMount only logs
HistoryRejected(l) ==
  /\ l \in loads
  /\ loads' = loads \ {l}
  /\ error' = IF l.site = "effect" THEN "Failed to load chat history"
              ELSE error
  /\ UNCHANGED <<revision, activeTabId, instanceId, messages, currentInput,
                 isGenerating, currentResponse, followUps, mode, searchMode,
                 requests, pins, pinCount, redeliveries, tabChatId, creating,
                 chatCount, logVars, dialogVars, fileOp, app, academicVars, settingsVars, tabVars, stock>>

\* ------------------------------------------------- backend
\* generate refused before anything was streamed
BackendReject(n) ==
  /\ requests[n].phase = "requested"
  /\ requests' = [requests EXCEPT ![n] = EndedRequest(@, "rejected")]
  /\ IF requests[n].inst = instanceId
     THEN /\ IF revision = "Chat.tsx"
             THEN ChatTsx_sendMessage_chatRejected(n)
             ELSE Part009_sendMessage_chatRejected(n)
          /\ LogReset
     ELSE UNCHANGED <<chatVars, logVars>>
  /\ UNCHANGED <<revision, activeTabId, instanceId, pins, pinCount, redeliveries>>
  /\ UNCHANGED hostVars

\* content-delta event of request n
BackendDelta(n) ==
  LET content == DeltaText(n, requests[n].emitted + 1) IN
  /\ requests[n].phase \in InFlight
  /\ requests[n].emitted < MaxDeltas
  /\ requests' = [requests EXCEPT ![n].phase = "streaming",
                                  ![n].emitted = @ + 1]
  /\ IF Listening(n)
     THEN /\ OnChatResponse(content)
          /\ deltaLog' = IF logValid THEN Append(deltaLog, content)
                         ELSE deltaLog
          /\ UNCHANGED <<logValid, logReq>>
     ELSE UNCHANGED <<chatVars, logVars>>
  /\ UNCHANGED <<revision, activeTabId, instanceId, pins, pinCount, redeliveries>>
  /\ UNCHANGED hostVars

\* generation-complete event of request n; its final message is the whole
\* streamed text
BackendComplete(n, follow_ups) ==
  /\ requests[n].phase \in InFlight
  /\ requests' = [requests EXCEPT ![n] = EndedRequest(@, "complete")]
  /\ IF Listening(n)
     THEN /\ OnChatComplete(Streamed(n, requests[n].emitted), follow_ups)
          /\ LogReset
     ELSE UNCHANGED <<chatVars, logVars>>
  /\ UNCHANGED <<revision, activeTabId, instanceId, pins, pinCount, redeliveries>>
  /\ UNCHANGED hostVars

\* generation-cancelled event of request n
BackendCancelled(n) ==
  /\ requests[n].phase \in InFlight
  /\ requests[n].cancelReq
  /\ requests' = [requests EXCEPT ![n] = EndedRequest(@, "cancelled")]
  /\ IF Listening(n)
     THEN /\ OnChatCancelled
          /\ LogReset
     ELSE UNCHANGED <<chatVars, logVars>>
  /\ UNCHANGED <<revision, activeTabId, instanceId, pins, pinCount, redeliveries>>
  /\ UNCHANGED hostVars

\* a terminal event of an already finalized request delivered once more
Redeliver(n, follow_ups) ==
  /\ requests[n].phase \in {"complete", "cancelled"}
  /\ Listening(n)
  /\ redeliveries < MaxRedeliveries
  /\ redeliveries' = redeliveries + 1
  /\ IF requests[n].phase = "complete"
     THEN OnChatComplete(Streamed(n, requests[n].emitted), follow_ups)
     ELSE OnChatCancelled
  /\ LogReset
  /\ UNCHANGED <<revision, activeTabId, instanceId, requests, pins, pinCount>>
  /\ UNCHANGED hostVars

\* a content-delta event of an already finalized request delivered late
LateDelta(n) ==
  /\ requests[n].phase \in {"complete", "cancelled"}
  /\ Listening(n)
  /\ redeliveries < MaxRedeliveries
  /\ redeliveries' = redeliveries + 1
  /\ OnChatResponse(DeltaText(n, MaxDeltas + 1))
  /\ LogReset
  /\ UNCHANGED <<revision, activeTabId, instanceId, requests, pins, pinCount>>
  /\ UNCHANGED hostVars

\* ------------------------------------------------------------- ChatSettings
\* the signals of a ChatSettings that is being mounted: ChatSettings.tsx
\* starts them at its own defaults, the ChatSettings of FocusModeConfig.ts at
\* props.modelParams
ChatSettings_signals ==
  IF settingsRevision = "ChatSettings.tsx" THEN DefaultParams ELSE modelParams

\* the settings button: setShowSettings(!showSettings()).  A panel that
\* opens mounts ChatSettings, whose effect calls onParamsChange with its
\* signals; a panel that closes disposes it.
toggleSettings ==
  /\ showSettings' = ~showSettings
  /\ IF showSettings
     THEN /\ chatSettings' = NoParams
          /\ UNCHANGED modelParams
     ELSE /\ chatSettings' = ChatSettings_signals
          /\ modelParams' = ChatSettings_signals
  /\ UNCHANGED <<sessionVars, histVars, dialogVars, fileOp, app, academicVars,
                 settingsRevision, tabVars, stock>>

\* the close button of the panel: setShowSettings(false)
closeSettings ==
  /\ showSettings
  /\ showSettings' = FALSE
  /\ chatSettings' = NoParams
  /\ UNCHANGED <<sessionVars, histVars, dialogVars, fileOp, app, academicVars,
                 modelParams, settingsRevision, tabVars, stock>>

\* onInput of a slider: the signal is set and the effect calls
\* onParamsChange with all five signals
ChatSettings_onInput(name, value) ==
  /\ showSettings
  /\ chatSettings' = [chatSettings EXCEPT ![name] = value]
  /\ modelParams' = chatSettings'
  /\ UNCHANGED <<sessionVars, histVars, dialogVars, fileOp, app, academicVars,
                 showSettings, settingsRevision, tabVars, stock>>

\* ------------------------------------------------------------- TabManager
\* the tab list of TabManager: a tab is its id, and "null" is no tab
\* crypto.randomUUID() of the k-th tab created
NewTabId(k) == "t" \o ToString(k)

\* what earlier runs of the program may have left in localStorage: nothing,
\* text that does not parse, or a tab list with the active tab key absent,
\* naming a saved tab, or naming a tab that is not saved
StoredByEarlierRuns ==
  {NoStorage, [saved |-> "corrupt", tabs |-> << >>, activeTab |-> "absent"]}
    \cup {[saved |-> "tabs", tabs |-> ts, activeTab |-> a] :
            ts \in {<<"s1">>, <<"s1", "s2">>},
            a \in {"absent", "s1", "s2", "s9"}}

\* tabs.filter((tab) => tab.id !== tabId)
WithoutTab(ts, tabId) == SelectSeq(ts, LAMBDA t : t # tabId)

\* the two effects that save: the tab list when it is not empty, the active
\* tab when it is not null
Saved(ts, active, old) ==
  [saved |-> IF ts # << >> THEN "tabs" ELSE old.saved,
   tabs |-> IF ts # << >> THEN ts ELSE old.tabs,
   activeTab |-> IF active # "null" THEN active ELSE old.activeTab]

TabManager_createNewTab ==
  LET newTab == NewTabId(tabManager.created + 1)
      ts == Append(tabManager.tabs, newTab)
  IN
  /\ tabManager.created < MaxTabs
  /\ tabManager' = [tabManager EXCEPT !.tabs = ts, !.activeTabId = newTab,
                                      !.created = @ + 1]
  /\ localStorage' = Saved(ts, newTab, localStorage)

\* mutant: closing the active tab leaves activeTabId as it is
TabManager_closeTab_keepActive(tabId) ==
  LET newTabs == WithoutTab(tabManager.tabs, tabId)
  IN
  /\ tabManager' = [tabManager EXCEPT !.tabs = newTabs]
  /\ localStorage' = Saved(newTabs, tabManager.activeTabId,
                           IF newTabs = << >> THEN NoStorage
                           ELSE localStorage)

TabManager_closeTab(tabId) ==
  LET newTabs == WithoutTab(tabManager.tabs, tabId)
      remainingTabs == WithoutTab(newTabs, tabId)
      active == IF tabManager.activeTabId = tabId
                THEN IF Len(remainingTabs) > 0
                     THEN remainingTabs[Len(remainingTabs)]
                     ELSE "null"
                ELSE tabManager.activeTabId
  IN
  /\ tabManager' = [tabManager EXCEPT !.tabs = newTabs,
                                      !.activeTabId = active]
  /\ localStorage' = Saved(newTabs, active,
                           IF newTabs = << >> THEN NoStorage
                           ELSE localStorage)

\* onMount, when the window is opened: the first time with what earlier runs
\* left in localStorage, later with what this run saved.  The saved tabs are
\* restored, or the first tab is created.
TabManager_onMount(stored) ==
  /\ ~tabManager.mounted
  /\ stored \in (IF tabManager.created = 0 /\ localStorage = NoStorage
                 THEN StoredByEarlierRuns ELSE {localStorage})
  /\ IF stored.saved = "tabs"
       THEN LET parsedTabs == stored.tabs
                active ==
                  IF /\ stored.activeTab # "absent"
                     /\ \E i \in 1..Len(parsedTabs) : parsedTabs[i] = stored.activeTab
                  THEN stored.activeTab
                  ELSE IF Len(parsedTabs) > 0 THEN parsedTabs[1]
                  ELSE tabManager.activeTabId
            IN
            /\ tabManager' = [tabManager EXCEPT !.mounted = TRUE,
                                                !.tabs = parsedTabs,
                                                !.activeTabId = active]
            /\ localStorage' = Saved(parsedTabs, active, stored)
       ELSE LET newTab == NewTabId(tabManager.created + 1)
            IN
            /\ tabManager.created < MaxTabs
            /\ tabManager' = [tabManager EXCEPT !.mounted = TRUE,
                                                !.tabs = <<newTab>>,
                                                !.activeTabId = newTab,
                                                !.created = @ + 1]
            /\ localStorage' = Saved(<<newTab>>, newTab, stored)
  /\ UNCHANGED <<sessionVars, histVars, dialogVars, fileOp, app, academicVars,
                 settingsVars, stock>>

\* the window is closed: the signals are gone, localStorage stays
TabManager_dispose ==
  /\ tabManager.mounted
  /\ tabManager' = [tabManager EXCEPT !.mounted = FALSE, !.tabs = << >>,
                                      !.activeTabId = "null",
                                      !.draggedTabId = "null"]
  /\ UNCHANGED <<sessionVars, histVars, dialogVars, fileOp, app, academicVars,
                 settingsVars, localStorage, stock>>

\* the + button
TabManager_onNewTab ==
  /\ tabManager.mounted
  /\ TabManager_createNewTab
  /\ UNCHANGED <<sessionVars, histVars, dialogVars, fileOp, app, academicVars,
                 settingsVars, stock>>

\* the x button of a tab
TabManager_onCloseTab(tabId) ==
  /\ tabManager.mounted
  /\ \E i \in 1..Len(tabManager.tabs) : tabManager.tabs[i] = tabId
  /\ TabManager_closeTab(tabId)
  /\ UNCHANGED <<sessionVars, histVars, dialogVars, fileOp, app, academicVars,
                 settingsVars, stock>>

\* onClick of a tab
TabManager_onClick(tabId) ==
  /\ tabManager.mounted
  /\ \E i \in 1..Len(tabManager.tabs) : tabManager.tabs[i] = tabId
  /\ tabManager' = [tabManager EXCEPT !.activeTabId = tabId]
  /\ localStorage' = Saved(tabManager.tabs, tabId, localStorage)
  /\ UNCHANGED <<sessionVars, histVars, dialogVars, fileOp, app, academicVars,
                 settingsVars, stock>>

\* keydown with Cmd/Ctrl held
TabManager_handleKeyDown(key) ==
  /\ tabManager.mounted
  /\ IF key = "t" THEN TabManager_createNewTab
     ELSE IF key = "w"
     THEN LET current == tabManager.activeTabId IN
          IF current # "null" THEN TabManager_closeTab(current)
          ELSE UNCHANGED tabVars
     ELSE LET tabIndex == CHOOSE d \in 1..9 : ToString(d) = key
              tabsList == tabManager.tabs
          IN
          IF tabIndex <= Len(tabsList)
          THEN /\ tabManager' = [tabManager EXCEPT
                                   !.activeTabId = tabsList[tabIndex]]
               /\ localStorage' = Saved(tabsList, tabsList[tabIndex],
                                        localStorage)
          ELSE UNCHANGED tabVars
  /\ UNCHANGED <<sessionVars, histVars, dialogVars, fileOp, app, academicVars,
                 settingsVars, stock>>

TabManager_handleDragStart(tabId) ==
  /\ tabManager.mounted
  /\ \E i \in 1..Len(tabManager.tabs) : tabManager.tabs[i] = tabId
  /\ tabManager' = [tabManager EXCEPT !.draggedTabId = tabId]
  /\ UNCHANGED <<sessionVars, histVars, dialogVars, fileOp, app, academicVars,
                 settingsVars, localStorage, stock>>

TabManager_handleDragOver(targetTabId) ==
  LET dragged == tabManager.draggedTabId
      prev == tabManager.tabs
      found(id) == \E i \in 1..Len(prev) : prev[i] = id
      indexOf(id) == CHOOSE i \in 1..Len(prev) :
                       /\ prev[i] = id
                       /\ \A j \in 1..(i - 1) : prev[j] # id
      removed == [i \in 1..(Len(prev) - 1) |->
                    IF i < indexOf(dragged) THEN prev[i] ELSE prev[i + 1]]
      newTabs == IF found(dragged) /\ found(targetTabId)
                 THEN SubSeq(removed, 1, indexOf(targetTabId) - 1)
                        \o <<dragged>>
                        \o SubSeq(removed, indexOf(targetTabId), Len(removed))
                 ELSE prev
  IN
  /\ tabManager.mounted
  /\ \E i \in 1..Len(tabManager.tabs) : tabManager.tabs[i] = targetTabId
  /\ IF dragged = "null" \/ dragged = targetTabId
     THEN UNCHANGED tabVars
     ELSE /\ tabManager' = [tabManager EXCEPT !.tabs = newTabs]
          /\ localStorage' = Saved(newTabs, "null", localStorage)
  /\ UNCHANGED <<sessionVars, histVars, dialogVars, fileOp, app, academicVars,
                 settingsVars, stock>>

TabManager_handleDragEnd ==
  /\ tabManager.mounted
  /\ tabManager' = [tabManager EXCEPT !.draggedTabId = "null"]
  /\ UNCHANGED <<sessionVars, histVars, dialogVars, fileOp, app, academicVars,
                 settingsVars, localStorage, stock>>

\* ------------------------------------------------- specifications
Next ==
  \/ \E v \in InputTexts : SetCurrentInput(v)
  \/ \E m \in ModeIds : SetMode(m)
  \/ handleFollowUpSelect
  \/ SendMessage
  \/ \E n \in Reqs, rs \in SearchResultSets : SearchResolved(n, rs)
  \/ \E n \in Reqs : SearchRejected(n)
  \/ \E n \in Reqs, ok \in BOOLEAN : handleCancelGeneration(n, ok)
  \/ \E t \in Tabs : setActiveTabId(t)
  \/ \E n \in Reqs : BackendReject(n)
  \/ \E n \in Reqs : BackendDelta(n)
  \/ \E n \in Reqs, fu \in FollowUpPayloads : BackendComplete(n, fu)
  \/ \E n \in Reqs : BackendCancelled(n)

Spec == Init /\ [][Next]_vars

\* the transport may deliver a terminal event twice, or a delta after the
\* terminal event
NextDup ==
  \/ Next
  \/ \E n \in Reqs, fu \in FollowUpPayloads : Redeliver(n, fu)
  \/ \E n \in Reqs : LateDelta(n)

SpecDup == Init /\ [][NextDup]_vars

\* the pin toggles, with the operations that grow or replace the message
\* list while a toggle is pending
NextPin ==
  \/ \E v \in InputTexts : SetCurrentInput(v)
  \/ SendMessage
  \/ \E i \in 1..Len(messages) : TogglePin(i)
  \/ \E p \in pins : TogglePinResolved(p)
  \/ \E p \in pins : TogglePinRejected(p)
  \/ \E t \in Tabs : setActiveTabId(t)
  \/ \E n \in Reqs : BackendDelta(n)
  \/ \E n \in Reqs, fu \in FollowUpPayloads : BackendComplete(n, fu)
  \/ \E n \in Reqs, ok \in BOOLEAN : handleCancelGeneration(n, ok)
  \/ \E n \in Reqs : BackendCancelled(n)

SpecPin == Init /\ [][NextPin]_vars

\* the pin toggles of a session that shows a chat, whose history load
\* replaces the message list
NextPinHist ==
  \/ \E v \in InputTexts : SetCurrentInput(v)
  \/ SendMessage
  \/ \E i \in 1..Len(messages) : TogglePin(i)
  \/ \E p \in pins : TogglePinResolved(p)
  \/ \E p \in pins : TogglePinRejected(p)
  \/ openNewChatDialog
  \/ startNewChat
  \/ startNewChat_resolved
  \/ \E l \in loads, h \in Histories : HistoryResolved(l, h)
  \/ \E n \in Reqs, fu \in FollowUpPayloads : BackendComplete(n, fu)

SpecPinHist == Init /\ [][NextPinHist]_vars

\* sends under every configured focus mode and under the initial id, which
\* is none of them, with the options of the search mode select
NextMode ==
  \/ \E v \in InputTexts : SetCurrentInput(v)
  \/ \E m \in {"offline", "chat", "web", "academic", "coding"} : SetMode(m)
  \/ \E v \in {"general", "academic"} : setSearchMode(v)
  \/ SendMessage
  \/ \E n \in Reqs, rs \in SearchResultSets : SearchResolved(n, rs)
  \/ \E n \in Reqs : SearchRejected(n)
  \/ \E n \in Reqs : BackendReject(n)
  \/ \E n \in Reqs, fu \in FollowUpPayloads : BackendComplete(n, fu)

SpecMode == Init /\ [][NextMode]_vars

\* the settings panel, with sends
NextSettings ==
  \/ \E v \in InputTexts : SetCurrentInput(v)
  \/ \E m \in ModeIds : SetMode(m)
  \/ SendMessage
  \/ \E n \in Reqs, rs \in SearchResultSets : SearchResolved(n, rs)
  \/ \E n \in Reqs : SearchRejected(n)
  \/ \E n \in Reqs, fu \in FollowUpPayloads : BackendComplete(n, fu)
  \/ toggleSettings
  \/ closeSettings
  \/ \E name \in DOMAIN DefaultParams : \E value \in SliderValues[name] :
       ChatSettings_onInput(name, value)

SpecSettings == InitSettings /\ [][NextSettings]_vars

\* the tab bar of TabManager
NextTabs ==
  \/ \E stored \in StoredByEarlierRuns \cup {localStorage} :
       TabManager_onMount(stored)
  \/ TabManager_dispose
  \/ TabManager_onNewTab
  \/ \E i \in 1..Len(tabManager.tabs) : TabManager_onCloseTab(tabManager.tabs[i])
  \/ \E i \in 1..Len(tabManager.tabs) : TabManager_onClick(tabManager.tabs[i])
  \/ \E key \in {"t", "w", "1", "2", "3"} : TabManager_handleKeyDown(key)
  \/ \E i \in 1..Len(tabManager.tabs) :
       TabManager_handleDragStart(tabManager.tabs[i])
  \/ \E i \in 1..Len(tabManager.tabs) :
       TabManager_handleDragOver(tabManager.tabs[i])
  \/ TabManager_handleDragEnd

SpecTabs == Init /\ [][NextTabs]_vars

\* chats are created and opened while messages are sent and streamed
NextHist ==
  \/ \E v \in InputTexts : SetCurrentInput(v)
  \/ SendMessage
  \/ openNewChatDialog
  \/ startNewChat
  \/ startNewChat_resolved
  \/ startNewChat_rejected
  \/ \E l \in loads, h \in Histories : HistoryResolved(l, h)
  \/ \E l \in loads : HistoryRejected(l)
  \/ \E t \in Tabs : setActiveTabId(t)
  \/ \E n \in Reqs : BackendDelta(n)
  \/ \E n \in Reqs, fu \in FollowUpPayloads : BackendComplete(n, fu)

SpecHist == Init /\ [][NextHist]_vars

\* ------------------------------------------------- export and import
\* The Export and Import buttons are shown while props.chatId is set.
\* "Export": handleExport waits for the save dialog
handleExport ==
  /\ tabChatId[activeTabId] # "null"
  /\ fileOp = "none"
  /\ fileOp' = "save"
  /\ UNCHANGED <<sessionVars, histVars, dialogVars, app, academicVars, settingsVars, tabVars, stock>>

\* save() resolved, with a path or with null (the dialog was dismissed)
handleExport_saved(filePath) ==
  /\ fileOp = "save"
  /\ fileOp' = IF filePath THEN "export_chat" ELSE "none"
  /\ UNCHANGED <<sessionVars, histVars, dialogVars, app, academicVars, settingsVars, tabVars, stock>>

\* invoke("export_chat") resolved: the data is encoded, writeFile is called
handleExport_exported ==
  /\ fileOp = "export_chat"
  /\ fileOp' = "writeFile"
  /\ UNCHANGED <<sessionVars, histVars, dialogVars, app, academicVars, settingsVars, tabVars, stock>>

\* writeFile resolved
handleExport_written ==
  /\ fileOp = "writeFile"
  /\ fileOp' = "none"
  /\ UNCHANGED <<sessionVars, histVars, dialogVars, app, academicVars, settingsVars, tabVars, stock>>

\* save, export_chat or writeFile rejected: catch (error) logs to the console
handleExport_rejected ==
  /\ fileOp \in {"save", "export_chat", "writeFile"}
  /\ fileOp' = "none"
  /\ UNCHANGED <<sessionVars, histVars, dialogVars, app, academicVars, settingsVars, tabVars, stock>>

\* "Import": handleImport waits for the open dialog
handleImport ==
  /\ tabChatId[activeTabId] # "null"
  /\ fileOp = "none"
  /\ fileOp' = "open"
  /\ UNCHANGED <<sessionVars, histVars, dialogVars, app, academicVars, settingsVars, tabVars, stock>>

\* open() resolved, with a file or with null
handleImport_opened(selected) ==
  /\ fileOp = "open"
  /\ fileOp' = IF selected THEN "import_chat" ELSE "none"
  /\ UNCHANGED <<sessionVars, histVars, dialogVars, app, academicVars, settingsVars, tabVars, stock>>

\* invoke("import_chat") resolved with the id of the imported chat:
\* props.onNewChat(newChatId), without a model
handleImport_resolved ==
  /\ fileOp = "import_chat"
  /\ chatCount < MaxChats
  /\ chatCount' = chatCount + 1
  /\ handleNewChat(NewChatId(chatCount + 1), "undefined", activeTabId)
  /\ UNCHANGED <<revision, activeTabId, pinCount, redeliveries, app,
                 academicVars, settingsVars, tabVars, stock>>

\* open or import_chat rejected: catch (error)
handleImport_rejected ==
  /\ fileOp \in {"open", "import_chat"}
  /\ fileOp' = "none"
  /\ error' = "Failed to import chat"
  /\ UNCHANGED <<revision, activeTabId, instanceId, messages, currentInput,
                 isGenerating, currentResponse, followUps, mode, searchMode,
                 requests, pins, pinCount, redeliveries, logVars, histVars,
                 dialogVars, app, academicVars, settingsVars, tabVars, stock>>

\* ------------------------------------------------- App
\* a model of the sidebar's list is clicked: handleModelSelect calls
\* invoke("create_chat")
handleModelSelect(modelName) ==
  /\ app.pending = ""
  /\ chatCount < MaxChats
  /\ app' = [app EXCEPT !.pending = modelName]
  /\ UNCHANGED <<sessionVars, histVars, dialogVars, fileOp, academicVars, settingsVars, tabVars, stock>>

\* create_chat resolved with a chat that has an id
handleModelSelect_resolved ==
  /\ app.pending # ""
  /\ chatCount < MaxChats
  /\ chatCount' = chatCount + 1
  /\ app' = [pending |-> "", selectedModel |-> app.pending,
             selectedChatId |-> NewChatId(chatCount + 1),
             showModelList |-> FALSE]
  /\ UNCHANGED <<sessionVars, tabChatId, loads, creating, dialogVars, fileOp,
                 academicVars, settingsVars, tabVars, stock>>

\* create_chat rejected, or resolved with no chat or no id: catch (error)
\* logs to the console
handleModelSelect_rejected ==
  /\ app.pending # ""
  /\ app' = [app EXCEPT !.pending = ""]
  /\ UNCHANGED <<sessionVars, histVars, dialogVars, fileOp, academicVars, settingsVars, tabVars, stock>>

\* the new-chat dialog and the two ways a chat is created, with sends
NextChats ==
  \/ \E v \in InputTexts : SetCurrentInput(v)
  \/ SendMessage
  \/ \E n \in Reqs, fu \in FollowUpPayloads : BackendComplete(n, fu)
  \/ openNewChatDialog
  \/ closeNewChatDialog
  \/ loadModels_resolved
  \/ \E i \in 1..Len(ModelNames) : setSelectedModel(ModelNames[i])
  \/ startNewChat
  \/ startNewChat_resolved
  \/ startNewChat_rejected
  \/ \E l \in loads, h \in Histories : HistoryResolved(l, h)
  \/ \E l \in loads : HistoryRejected(l)
  \/ \E i \in 1..Len(ModelNames) : handleModelSelect(ModelNames[i])
  \/ handleModelSelect_resolved
  \/ handleModelSelect_rejected

SpecChats == Init /\ [][NextChats]_vars

\* export and import of the chat of a tab, with sends
NextFile ==
  \/ \E v \in InputTexts : SetCurrentInput(v)
  \/ SendMessage
  \/ \E n \in Reqs, fu \in FollowUpPayloads : BackendComplete(n, fu)
  \/ openNewChatDialog
  \/ startNewChat
  \/ startNewChat_resolved
  \/ \E l \in loads, h \in Histories : HistoryResolved(l, h)
  \/ handleExport
  \/ \E filePath \in BOOLEAN : handleExport_saved(filePath)
  \/ handleExport_exported
  \/ handleExport_written
  \/ handleExport_rejected
  \/ handleImport
  \/ \E selected \in BOOLEAN : handleImport_opened(selected)
  \/ handleImport_resolved
  \/ handleImport_rejected

SpecFile == Init /\ [][NextFile]_vars

\* ------------------------------------------------- App of part_007
\* src/unnamed/part_007 renders one Chat with chatId={selectedChatId()}: the
\* Chat stays mounted while its props change.  tabChatId[activeTabId] and
\* tabModelName[activeTabId] hold the props of that Chat.
\* the chats the history list offers, and what the backend stores for them
StoredChats == {"chatA", "chatB"}
HistoryOf(chatId) == <<StoredMessage(<<chatId>>)>>

\* a chat of the history list is clicked: handleChatSelect sets
\* selectedChatId and selectedModel; the chatId effect of the mounted Chat
\* runs again and calls get_chat_messages
Part007_handleChatSelect(chatId, model) ==
  /\ chatId # tabChatId[activeTabId]
  /\ tabChatId' = [tabChatId EXCEPT ![activeTabId] = chatId]
  /\ tabModelName' = [tabModelName EXCEPT ![activeTabId] = model]
  /\ selectedModel' = IF showNewChatDialog THEN selectedModel ELSE model
  /\ loads' = loads \cup {[site |-> "effect", chatId |-> chatId]}
  /\ UNCHANGED <<sessionVars, creating, chatCount, showNewChatDialog,
                 onNewChatLog, fileOp, app, academicVars, settingsVars, tabVars, stock>>

\* a model of the sidebar is clicked: handleModelSelect sets selectedChatId
\* to null; the chatId effect empties the list and the buffer
Part007_handleModelSelect(modelName) ==
  /\ tabChatId[activeTabId] # "null"
  /\ tabChatId' = [tabChatId EXCEPT ![activeTabId] = "null"]
  /\ tabModelName' = [tabModelName EXCEPT ![activeTabId] = modelName]
  /\ selectedModel' = IF showNewChatDialog THEN selectedModel ELSE modelName
  /\ messages' = << >>
  /\ currentResponse' = << >>
  /\ LogReset
  /\ UNCHANGED <<revision, activeTabId, instanceId, currentInput,
                 isGenerating, error, followUps, mode, searchMode, requests,
                 pins, pinCount, redeliveries, loads, creating, chatCount,
                 showNewChatDialog, onNewChatLog, fileOp, app, academicVars, settingsVars, tabVars, stock>>

NextApp ==
  \/ \E c \in StoredChats : Part007_handleChatSelect(c, ModelNames[1])
  \/ Part007_handleModelSelect(ModelNames[1])
  \/ \E l \in loads : HistoryResolved(l, HistoryOf(l.chatId))
  \/ \E v \in InputTexts : SetCurrentInput(v)
  \/ SendMessage
  \/ \E n \in Reqs : BackendDelta(n)
  \/ \E n \in Reqs, fu \in FollowUpPayloads : BackendComplete(n, fu)

SpecApp == Init /\ [][NextApp]_vars

\* ------------------------------------------------- academic search
\* ContextIndicator.tsx: searchAcademic, searchArxiv, searchCrossref
\* the i-th <entry> of an arXiv answer; entries repeat with period 4
ArxivEntry(i) ==
  [title |-> <<" ", "A" \o ToString(i % 4), " ">>,
   summary |-> <<"abstract", " ">>,
   id |-> "http://arxiv.org/abs/" \o ToString(i % 4)]

\* the i-th item of a Crossref answer; odd items carry no URL and no abstract
CrossrefItem(i) ==
  [title |-> "C" \o ToString(i % 4),
   URL |-> IF i % 2 = 0 THEN "http://doi.example/" \o ToString(i % 4) ELSE "",
   abstract |-> IF i % 2 = 0 THEN <<"abstract">> ELSE << >>,
   DOI |-> "10." \o ToString(i % 4)]

ArxivFeeds == {[i \in 1..k |-> ArxivEntry(i)] : k \in 0..MaxFeed}
CrossrefFeeds == {[i \in 1..k |-> CrossrefItem(i)] : k \in 0..MaxFeed}

\* entries.map((entry) => ...) of searchArxiv
ArxivResult(entry) ==
  [title |-> Trim(entry.title), url |-> entry.id,
   snippet |-> Trim(entry.summary), source_type |-> "academic",
   doi |-> "undefined"]

\* data.items.map((item) => ...) of searchCrossref
CrossrefResult(item) ==
  [title |-> <<item.title>>,
   url |-> IF item.URL # "" THEN item.URL ELSE "https://doi.org/" \o item.DOI,
   snippet |-> IF item.abstract # << >> THEN item.abstract
               ELSE <<"No abstract available">>,
   source_type |-> "academic", doi |-> item.DOI]

\* s.slice(0, n)
Slice(s, n) == SubSeq(s, 1, IF Len(s) < n THEN Len(s) ELSE n)

Pending == [state |-> "pending", failed |-> FALSE, results |-> << >>]

\* searchAcademic(query) is called: both provider calls start
searchAcademic ==
  /\ academic.state # "pending"
  /\ academic' = Pending
  /\ arxiv' = Pending
  /\ crossref' = Pending
  /\ UNCHANGED <<sessionVars, histVars, dialogVars, fileOp, app, settingsVars, tabVars, stock>>

\* searchArxiv: the fetch answered with the entries of feed
searchArxiv_fetched(feed) ==
  /\ arxiv.state = "pending"
  /\ arxiv' = [state |-> "fulfilled", failed |-> FALSE,
               results |-> [i \in 1..Len(feed) |-> ArxivResult(feed[i])]]
  /\ UNCHANGED <<crossref, academic, sessionVars, histVars, dialogVars,
                 fileOp, app, settingsVars, tabVars, stock>>

\* searchArxiv: fetch or parsing threw; catch (error) returns []
searchArxiv_failed ==
  /\ arxiv.state = "pending"
  /\ arxiv' = [state |-> "fulfilled", failed |-> TRUE, results |-> << >>]
  /\ UNCHANGED <<crossref, academic, sessionVars, histVars, dialogVars,
                 fileOp, app, settingsVars, tabVars, stock>>

\* searchCrossref: the fetch answered with the items of feed
searchCrossref_fetched(feed) ==
  /\ crossref.state = "pending"
  /\ crossref' = [state |-> "fulfilled", failed |-> FALSE,
                  results |-> [i \in 1..Len(feed) |-> CrossrefResult(feed[i])]]
  /\ UNCHANGED <<arxiv, academic, sessionVars, histVars, dialogVars,
                 fileOp, app, settingsVars, tabVars, stock>>

\* searchCrossref: fetch or json() threw; catch (error) returns []
searchCrossref_failed ==
  /\ crossref.state = "pending"
  /\ crossref' = [state |-> "fulfilled", failed |-> TRUE, results |-> << >>]
  /\ UNCHANGED <<arxiv, academic, sessionVars, histVars, dialogVars,
                 fileOp, app, settingsVars, tabVars, stock>>

\* mutant: the combined list is deduplicated before it is cut
searchAcademic_resolved_dedup ==
  LET combinedResults == arxiv.results \o crossref.results
      firstAt(i) == \A j \in 1..(i - 1) : combinedResults[j] # combinedResults[i]
      keep == {i \in 1..Len(combinedResults) : firstAt(i)}
      RECURSIVE Pick(_)
      Pick(i) == IF i > Len(combinedResults) THEN << >>
                 ELSE (IF i \in keep THEN <<combinedResults[i]>> ELSE << >>)
                      \o Pick(i + 1)
  IN
  /\ academic.state = "pending"
  /\ arxiv.state = "fulfilled"
  /\ crossref.state = "fulfilled"
  /\ academic' = [state |-> "resolved", failed |-> FALSE,
                  results |-> Slice(Pick(1), MaxAcademicResults)]
  /\ UNCHANGED <<arxiv, crossref, sessionVars, histVars, dialogVars,
                 fileOp, app, settingsVars, tabVars, stock>>

\* Promise.all fulfilled (neither provider promise ever rejects): the two
\* lists are concatenated and cut
searchAcademic_resolved ==
  LET combinedResults == arxiv.results \o crossref.results IN
  /\ academic.state = "pending"
  /\ arxiv.state = "fulfilled"
  /\ crossref.state = "fulfilled"
  /\ academic' = [state |-> "resolved", failed |-> FALSE,
                  results |-> Slice(combinedResults, MaxAcademicResults)]
  /\ UNCHANGED <<arxiv, crossref, sessionVars, histVars, dialogVars,
                 fileOp, app, settingsVars, tabVars, stock>>

NextAcademic ==
  \/ searchAcademic
  \/ \E feed \in ArxivFeeds : searchArxiv_fetched(feed)
  \/ searchArxiv_failed
  \/ \E feed \in CrossrefFeeds : searchCrossref_fetched(feed)
  \/ searchCrossref_failed
  \/ searchAcademic_resolved

SpecAcademic == Init /\ [][NextAcademic]_vars

\* ------------------------------------------------------------- stock data
\* the texts the API gives as "4. close"
CloseTexts == {"10.50", "11", "9.75"}

\* parseFloat of such a text; a number is written as its decimal text
ParseFloat(text) ==
  CASE text = "10.50" -> "10.5"
    [] text = "11" -> "11"
    [] text = "9.75" -> "9.75"
    [] text = "1200" -> "1200"

\* data['Time Series (Daily)'] of len days, newest first: a date is the
\* number of its day, and the close texts of odd and even days are c[1], c[2]
DailySeries(len, c) ==
  [i \in 1..len |->
     [date |-> len - i + 1,
      close |-> IF (len - i + 1) % 2 = 1 THEN c[1] ELSE c[2],
      volume |-> "1200"]]

\* the bodies of the response: without the daily series, or with one
StockResponses ==
  {[has |-> FALSE, series |-> << >>]}
    \cup {[has |-> TRUE, series |-> DailySeries(len, c)] :
            len \in 0..MaxDays, c \in CloseTexts \X CloseTexts}

\* array.reverse()
Reverse(s) == [i \in 1..Len(s) |-> s[Len(s) - i + 1]]

\* fetchStockData(symbol) is called: the fetch starts
fetchStockData ==
  /\ stock.state # "pending"
  /\ stock' = [state |-> "pending", data |-> NoData, result |-> << >>]
  /\ UNCHANGED <<sessionVars, histVars, dialogVars, fileOp, app, academicVars,
                 settingsVars, tabVars>>

\* the response arrived with body data: map, reverse, slice(0, 30), or the
\* throw of 'No data available'
fetchStockData_resolved(data) ==
  /\ stock.state = "pending"
  /\ IF data.has
     THEN stock' =
            [state |-> "fulfilled", data |-> data,
             result |-> Slice(Reverse(
               [i \in 1..Len(data.series) |->
                  [date |-> data.series[i].date,
                   close |-> ParseFloat(data.series[i].close),
                   volume |-> ParseFloat(data.series[i].volume)]]),
               LastDays)]
     ELSE stock' = [state |-> "rejected", data |-> data, result |-> << >>]
  /\ UNCHANGED <<sessionVars, histVars, dialogVars, fileOp, app, academicVars,
                 settingsVars, tabVars>>

\* the fetch itself failed: the promise is rejected
fetchStockData_failed ==
  /\ stock.state = "pending"
  /\ stock' = [state |-> "rejected", data |-> NoData, result |-> << >>]
  /\ UNCHANGED <<sessionVars, histVars, dialogVars, fileOp, app, academicVars,
                 settingsVars, tabVars>>

NextStock ==
  \/ fetchStockData
  \/ \E data \in StockResponses : fetchStockData_resolved(data)
  \/ fetchStockData_failed

SpecStock == Init /\ [][NextStock]_vars

\* ------------------------------------------------- properties
\* the session whose listeners run is the one that sent request n
Own(n) == requests[n].inst = instanceId

C2_AtMostOneInFlight ==
  \A t \in Tabs :
    Cardinality({n \in Reqs : requests[n].tab = t
                              /\ requests[n].phase \in InFlight}) <= 1

\* C3: an event emitted for the generation of another session changes
\* neither the buffer, the message list nor the generation-in-progress flag
\* of the mounted session.
C3_SessionIsolation ==
  [][\A n \in Reqs :
       (/\ ~Own(n)
        /\ \/ BackendDelta(n)
           \/ \E fu \in FollowUpPayloads : BackendComplete(n, fu)
           \/ BackendCancelled(n))
       => UNCHANGED <<currentResponse, messages, isGenerating>>]_vars

\* C4: a generation-cancelled event arriving at the session of the request
\* while its buffer holds a non-empty text b appends exactly one assistant
\* message with content b, empties the buffer and clears the flag.
C4_CancelCommitsPartial ==
  [][\A n \in Reqs :
       (BackendCancelled(n) /\ Own(n) /\ currentResponse # << >>)
       => /\ messages' = Append(messages, AssistantMessage(currentResponse))
          /\ currentResponse' = << >>
          /\ isGenerating' = FALSE]_vars

\* C5: a terminal event delivered a second time to the session of an
\* already finalized request appends no message and sets no error.
C5_IdempotentFinalization ==
  [][\A n \in Reqs, fu \in FollowUpPayloads :
       (Redeliver(n, fu) /\ Own(n))
       => messages' = messages /\ error' = error]_vars

\* C6: a generation-cancelled event that arrives while the buffer is empty
\* leaves the message list unchanged.
C6_EmptyCancelCommitsNothing ==
  [][\A n \in Reqs :
       (BackendCancelled(n) /\ Listening(n) /\ currentResponse = << >>)
       => messages' = messages]_vars

\* the only request of the session was cancelled before anything was
\* streamed: the list holds the user message alone
C6_Witness ==
  /\ Len(requests) = 1
  /\ requests[1].phase = "cancelled"
  /\ Own(1)
  /\ Len(messages) = 1
  /\ messages[1].role = "user"
  /\ currentResponse \in {<< >>, CancelledMarker}
  /\ ~isGenerating

\* C7: with web search enabled, a send appends nothing and dispatches no
\* generation request before the search has answered; when the search
\* rejects, no generation request is dispatched, the error state is set,
\* the flag is false and the message list is unchanged.
C7_SearchFailureAbortsSend ==
  [][/\ (SendMessage /\ revision = "Chat.tsx" /\ isWebSearchEnabled)
        => /\ messages' = messages
           /\ requests'[Len(requests')].phase = "search"
     /\ \A n \in Reqs :
          (SearchRejected(n) /\ Own(n))
          => /\ messages' = messages
             /\ error' # "undefined"
             /\ isGenerating' = FALSE
             /\ requests'[n].phase \notin InFlight
             /\ \A m \in Reqs : requests'[m].phase \in InFlight
                                  => requests[m].phase \in InFlight]_vars

\* the search of the session's only send has failed
C7_Witness ==
  /\ Len(requests) = 1
  /\ requests[1].phase = "searchFailed"
  /\ Own(1)
  /\ error = "Search failed"
  /\ ~isGenerating
  /\ messages = << >>

\* C8: the message list of a dispatched request is the history before the
\* send, then the user message once, then one system message when the
\* search ran.
C8_DispatchedMessages ==
  \A n \in Reqs :
    requests[n].phase \in InFlight =>
      LET r == requests[n]
          k == Len(r.prior)
      IN
      /\ Len(r.msgs) = k + (IF r.webSearch THEN 2 ELSE 1)
      /\ SubSeq(r.msgs, 1, k) = r.prior
      /\ r.msgs[k + 1] = r.userMessage
      /\ r.webSearch => r.msgs[k + 2].role = "system"

\* C9: the response of a generation that was in flight while the user
\* activated another tab is in the message list of its tab whenever that
\* tab is the active one and the generation has completed.
C9_GenerationSurvivesTabSwitch ==
  \A n \in Reqs :
    (/\ requests[n].phase = "complete"
     /\ requests[n].away
     /\ requests[n].emitted = MaxDeltas
     /\ requests[n].tab = activeTabId)
    => \E i \in 1..Len(messages) :
         messages[i] = AssistantMessage(Streamed(n, MaxDeltas))

\* C10: an acknowledged toggle negates isPinned of the message at the
\* toggled index (so a second one restores it) and leaves the length of
\* the list, the other fields of that message and every other message
\* unchanged.
C10_PinToggleRoundTrip ==
  [][\A p \in pins :
       (TogglePinResolved(p) /\ p.index \in 1..Len(messages))
       => /\ Len(messages') = Len(messages)
          /\ messages'[p.index] =
               [messages[p.index] EXCEPT !.isPinned = ~messages[p.index].isPinned]
          /\ \A i \in 1..Len(messages) :
               i # p.index => messages'[i] = messages[i]]_vars

\* both toggles of the run were acknowledged for the only message of the
\* first session, which is unpinned again
C10_Witness ==
  /\ instanceId = 1
  /\ Len(messages) = 1
  /\ pinCount = 2
  /\ pins = {}
  /\ error = "undefined"
  /\ ~messages[1].isPinned

\* C11: isPinned of a message changes only in the step that handles the
\* backend's acknowledgment of a toggle, never when the toggle is requested;
\* a toggle the backend refuses (a message without id is always refused)
\* leaves the message list unchanged and sets the error state.
C11_PinOnlyAfterAck ==
  [][/\ \A i \in 1..Len(messages) : TogglePin(i) => messages' = messages
     /\ \A p \in pins :
          (TogglePinRejected(p) /\ ~TogglePinResolved(p))
          => messages' = messages /\ error' # "undefined"
     /\ \A p \in pins :
          ~p.hasId => ~ENABLED TogglePinResolved(p)
     /\ (\E i \in 1..Len(messages) :
           /\ i <= Len(messages')
           /\ messages'[i].isPinned # messages[i].isPinned)
        => \E p \in pins : TogglePinResolved(p) /\ p.hasId]_vars

\* a toggle of the first session was refused: nothing is pinned and the
\* error is shown
C11_Witness ==
  /\ instanceId = 1
  /\ pinCount >= 1
  /\ pins = {}
  /\ error = "Failed to toggle message pin"
  /\ messages # << >>
  /\ \A i \in 1..Len(messages) : ~messages[i].isPinned

\* C12: a send whose input is empty after trimming, or that is issued
\* while a search or generation of the active tab's session is in flight,
\* dispatches nothing and leaves the message list, buffer, input text,
\* follow-up suggestions, generation flag and error state unchanged.
C12_RejectedSendIsNoOp ==
  [][(/\ SendMessage
      /\ \/ Trim(currentInput) = << >>
         \/ \E n \in Reqs : /\ requests[n].tab = activeTabId
                             /\ requests[n].phase \in InFlight \cup {"search"})
     => UNCHANGED <<requests, messages, currentResponse, currentInput,
                    followUps, isGenerating, error>>]_vars

\* C13: when the backend refuses the generate call of an accepted send, the
\* session that sent has its error state set and its generation flag false
\* afterwards, and the refusal leaves its message list as it was (no
\* assistant message is appended for that send).
C13_GenerateRejected ==
  [][\A n \in Reqs :
       (BackendReject(n) /\ Own(n))
       => /\ error' # "undefined"
          /\ isGenerating' = FALSE
          /\ messages' = messages]_vars

\* the only send of the session was refused: its user message is the last
\* of the list, the error is shown and nothing is generating
C13_Witness ==
  /\ Len(requests) = 1
  /\ requests[1].phase = "rejected"
  /\ Own(1)
  /\ error \in {"Failed to send message", "Search failed"}
  /\ ~isGenerating
  /\ messages # << >>
  /\ messages[Len(messages)].role = "user"

\* C17: a content-delta event delivered to a session that has no
\* generation in flight (its generation was finalized) changes neither the
\* buffer nor the message list and sets no error.
C17_DeltaWhenIdleIsNoOp ==
  [][\A n \in Reqs :
       (/\ LateDelta(n)
        /\ Own(n)
        /\ \A m \in Reqs : requests[m].phase \in InFlight => ~Listening(m))
       => UNCHANGED <<currentResponse, messages, error>>]_vars

\* C18: whenever the mounted session dispatches a generation request, its
\* buffer is empty at that moment.
C18_BufferEmptyAtDispatch ==
  [][\A n \in 1..Len(requests') :
       (/\ requests'[n].phase = "requested"
        /\ requests'[n].inst = instanceId
        /\ n \in Reqs => requests[n].phase = "search")
       => currentResponse' = << >>]_vars

\* C19: as long as the same session stays mounted, every step leaves the
\* earlier message list a prefix of the later one when isPinned is ignored:
\* no message is removed, reordered or changed in role or content by a
\* send, a delta, a completion, a cancellation or a pin toggle.
C19_AppendOnly ==
  [][instanceId' = instanceId
     => /\ Len(messages) <= Len(messages')
        /\ \A i \in 1..Len(messages) :
             [messages'[i] EXCEPT !.isPinned = messages[i].isPinned]
               = messages[i]]_vars

\* the first session holds a pinned user message followed by the committed
\* response, with a further toggle acknowledged or refused
C19_Witness ==
  /\ instanceId = 1
  /\ Len(messages) >= 2
  /\ messages[1].role = "user"
  /\ messages[1].isPinned
  /\ messages[2].role = "assistant"
  /\ pinCount = MaxPins
  /\ pins = {}

\* C20: immediately after a send is accepted the user message is the last
\* element of the message list, the generation flag is true and the
\* follow-up suggestions are empty.
C20_AfterAcceptedSend ==
  [][SendMessage
     => /\ messages' # << >>
        /\ messages'[Len(messages')] = requests'[Len(requests')].userMessage
        /\ isGenerating'
        /\ followUps' = << >>]_vars

\* C14: when a history load of the session being opened fails, the
\* message list is empty afterwards and the error state is set.
C14_HistoryLoadFailure ==
  [][\A l \in loads :
       HistoryRejected(l) => messages' = << >> /\ error' # "undefined"]_vars

\* C15: every generation request in flight carries a chat id: a session
\* without one has a chat created before its request is dispatched.
C15_ChatCreatedBeforeGenerate ==
  \A n \in Reqs :
    requests[n].phase \in InFlight => requests[n].chatId # "null"

\* C16: when the history load of a session opened on an existing chat
\* succeeds, the message list is the loaded history, the buffer is empty
\* and the generation flag is false.
C16_OpenChatResetsSession ==
  [][\A l \in loads, h \in Histories :
       HistoryResolved(l, h)
       => /\ messages' = h
          /\ currentResponse' = << >>
          /\ isGenerating' = FALSE]_vars

\* C21: when the completion event of a request is delivered to the session,
\* the list of messages changes only if the buffer held text, a completion
\* that meets an empty buffer leaves the list as it was, and afterwards the
\* buffer is empty, the flag is false and the follow-ups are those of the
\* event (none when the event carries none).
C21_CompleteCommitsNonEmptyBuffer ==
  [][\A n \in Reqs : \A fu \in FollowUpPayloads :
       (BackendComplete(n, fu) /\ Listening(n)) =>
         /\ (currentResponse = << >> => messages' = messages)
         /\ (messages' # messages =>
               messages' = Append(messages, AssistantMessage(currentResponse)))
         /\ currentResponse' = << >>
         /\ isGenerating' = FALSE
         /\ followUps' = IF fu = "undefined" THEN << >> ELSE <<"follow-up">>]_vars

\* C22: a cancel issued from a session asks for the cancellation of that
\* session's own generation only: the request it marks, and that the
\* backend then ends with generation-cancelled, belongs to the session of
\* the active tab, never to the generation of another session.
C22_CancelOwnGenerationOnly ==
  [][\A n \in Reqs :
       handleCancelGeneration(n, TRUE) => requests[n].tab = activeTabId]_vars

\* C23: an error never blocks further input. A send that ends in an error
\* (the search fails, or generate is refused) leaves the flag false and the
\* error set; while an error is shown and the flag is false a send with a
\* non-blank input is accepted; and an accepted send clears the error.
C23_ErrorDoesNotBlockInput ==
  [][/\ \A n \in Reqs :
          ((SearchRejected(n) \/ BackendReject(n)) /\ Own(n)) =>
            (~isGenerating' /\ error' # "undefined")
     /\ (error # "undefined" /\ ~isGenerating /\ Trim(currentInput) # << >>
           /\ Len(requests) < MaxSends) => ENABLED SendMessage
     /\ SendMessage => (error' = "undefined" /\ isGenerating')]_vars

\* a search failed in the mounted session, and its next send was accepted
\* and cleared the error
C23_Witness ==
  /\ Len(requests) = 2
  /\ requests[1].phase = "searchFailed"
  /\ requests[1].inst = instanceId
  /\ requests[2].inst = instanceId
  /\ requests[2].phase \in {"search", "requested"}
  /\ isGenerating
  /\ error = "undefined"

\* C24: a search that succeeds with no results is not a failure. When the
\* search of the mounted session's send answers with an empty list, the user
\* message is appended to the list, the generation request is dispatched
\* with a context message as its last message, nothing follows the heading
\* of that message's citation section, and the error and the flag are left
\* as they were.
C24_EmptySearchProceeds ==
  [][\A n \in Reqs :
       (SearchResolved(n, << >>) /\ Own(n)) =>
         LET msgs == requests'[n].msgs
             context == msgs[Len(msgs)]
         IN /\ messages' = Append(messages, requests[n].userMessage)
            /\ requests'[n].phase = "requested"
            /\ context = SystemMessage(SearchPrompt(searchMode,
                             requests[n].userMessage.content, << >>))
            /\ context.content[Len(context.content)]
                 \in {"Search Results:", "Sources:"}
            /\ error' = error
            /\ isGenerating' = isGenerating]_vars

\* the request of a send whose search found nothing is in flight, and no
\* error is shown
C24_Witness ==
  \E n \in Reqs :
    /\ Own(n)
    /\ requests[n].webSearch
    /\ requests[n].phase = "requested"
    /\ LET c == requests[n].msgs[Len(requests[n].msgs)].content
       IN c[Len(c)] = "Search Results:"
    /\ messages # << >>
    /\ messages[Len(messages)] = requests[n].userMessage
    /\ error = "undefined"
    /\ isGenerating

\* C25: a fetch failure of an academic provider (arXiv or Crossref) makes
\* the academic search reject: a search one of whose provider fetches has
\* failed never resolves with a list of results.
C25_ProviderFailureRejects ==
  academic.state = "resolved" => ~(arxiv.failed \/ crossref.failed)

C26_FileFailureSetsError ==
  [][(/\ handleExport_rejected \/ handleImport_rejected
      /\ fileOp \in {"export_chat", "writeFile", "import_chat"}) =>
       /\ error' # "undefined"
       /\ messages' = messages
       /\ isGenerating' = isGenerating
       /\ currentResponse' = currentResponse
       /\ requests' = requests]_vars

\* C27: eager creation of a chat by startNewChat. When create_chat answers
\* with an id the owner is notified exactly once, with the new id and the
\* selected model, and the session's list, buffer, follow-ups and error are
\* reset. When create_chat rejects or answers without an id the owner is
\* not notified, the chatId and the model of the session and its list stay
\* as they were, the error is set and the dialog is left as it is (open).
C27_StartNewChat ==
  [][/\ startNewChat_resolved =>
          /\ onNewChatLog' = Append(onNewChatLog,
                 [chatId |-> NewChatId(chatCount + 1),
                  model |-> selectedModel, tabId |-> activeTabId])
          /\ tabChatId'[activeTabId] = NewChatId(chatCount + 1)
          /\ tabModelName'[activeTabId] = selectedModel
          /\ messages' = << >>
          /\ currentResponse' = << >>
          /\ followUps' = << >>
          /\ error' = "undefined"
     /\ startNewChat_rejected =>
          /\ onNewChatLog' = onNewChatLog
          /\ tabChatId' = tabChatId
          /\ tabModelName' = tabModelName
          /\ messages' = messages
          /\ error' = "Failed to create new chat"
          /\ showNewChatDialog' = showNewChatDialog]_vars

\* a session that had committed an answer created a chat with the second
\* model: its owner was notified once and its list is empty
C27_Witness ==
  /\ onNewChatLog = <<[chatId |-> "chat1", model |-> ModelNames[2],
                       tabId |-> activeTabId]>>
  /\ tabChatId[activeTabId] = "chat1"
  /\ messages = << >>
  /\ error = "undefined"
  /\ \E n \in Reqs : /\ requests[n].phase = "complete"
                     /\ requests[n].tab = activeTabId
                     /\ requests[n].inst < instanceId

\* ------------------------------------------------- liveness
\* The backend delivers a terminal event (complete, cancelled, or the
\* refusal of the call) for every request it accepted, and every search
\* call settles.
BackendTerminal ==
  \E n \in Reqs : \/ \E fu \in FollowUpPayloads : BackendComplete(n, fu)
                  \/ BackendCancelled(n)
                  \/ BackendReject(n)

SearchSettled ==
  \E n \in Reqs : \/ \E rs \in SearchResultSets : SearchResolved(n, rs)
                  \/ SearchRejected(n)

\* the operations that set and clear the flag, with the tab switch
NextLive ==
  \/ \E v \in InputTexts : SetCurrentInput(v)
  \/ \E m \in ModeIds : SetMode(m)
  \/ SendMessage
  \/ \E n \in Reqs, rs \in SearchResultSets : SearchResolved(n, rs)
  \/ \E n \in Reqs : SearchRejected(n)
  \/ \E n \in Reqs, ok \in BOOLEAN : handleCancelGeneration(n, ok)
  \/ \E t \in Tabs : setActiveTabId(t)
  \/ \E n \in Reqs : BackendReject(n)
  \/ \E n \in Reqs, fu \in FollowUpPayloads : BackendComplete(n, fu)
  \/ \E n \in Reqs : BackendCancelled(n)

SpecLive ==
  Init /\ [][NextLive]_vars /\ WF_vars(BackendTerminal) /\ WF_vars(SearchSettled)

\* C28: no permanently stuck generating state. With one terminal event per
\* accepted request and fair scheduling, whenever the flag of a mounted
\* session is true, later the flag of that session is false or the session
\* has been disposed (the flag of the session mounted in its place starts
\* false).
C28_FlagEventuallyFalse == isGenerating ~> ~isGenerating

\* the flag of the mounted session was set by its send and cleared by the
\* terminal event of that request
C28_Witness ==
  /\ ~isGenerating
  /\ \E n \in Reqs : /\ Own(n)
                     /\ requests[n].phase \in Finalized
                     /\ ~requests[n].away

\* C30: history loads are free of races. When the chatId of a session has
\* changed and every load that was started has resolved, in whatever order,
\* the list of a session that has sent nothing is the history of the chat
\* it shows now, never that of a chat it showed before.
C30_LastChatIdWins ==
  (/\ loads = {}
   /\ tabChatId[activeTabId] # "null"
   /\ requests = << >>) => messages = HistoryOf(tabChatId[activeTabId])

\* C31: a history load that is pending when a send is accepted in the same
\* session does not erase that send: when the load resolves, the user
\* message of every request of the session that is in flight is still in
\* the message list.
C31_PendingLoadKeepsSend ==
  [][\A l \in loads : \A h \in Histories :
       HistoryResolved(l, h) =>
         \A n \in Reqs :
           (Own(n) /\ requests[n].phase \in InFlight) =>
             \E i \in 1..Len(messages') :
               messages'[i] = requests[n].userMessage]_vars

\* C32: in every reachable state of a session, if the generation flag is
\* false then the stream buffer is empty.
C32_IdleBufferEmpty == ~isGenerating => currentResponse = << >>

\* C33: a pin toggle flips the message the user targeted even when the
\* message list changes while the backend call is pending: when the call is
\* acknowledged the length of the list is unchanged, and a message whose
\* isPinned changes is the one the toggle was requested for.
C33_PinTogglesTargetedMessage ==
  [][\A p \in pins :
       TogglePinResolved(p) =>
         /\ Len(messages') = Len(messages)
         /\ \A i \in 1..Len(messages) :
              messages'[i].isPinned # messages[i].isPinned =>
                /\ i = p.index
                /\ [messages[i] EXCEPT !.isPinned = FALSE]
                     = [p.message EXCEPT !.isPinned = FALSE]]_vars

\* C34: a send invokes the search only when the current focus mode has web
\* search enabled, and the mode it passes is then general or academic, never
\* the empty string; a focus-mode id that matches no configured mode is
\* treated as the first configured mode, chat, whose web search is disabled.
C34_SearchOnlyWhenEnabled ==
  [][SendMessage =>
       LET r == requests'[Len(requests')] IN
       /\ r.webSearch => isWebSearchEnabled
       /\ r.webSearch => r.searchMode \in {"general", "academic"}
       /\ (\A i \in 1..Len(focusModes) : focusModes[i].id # mode)
          => /\ getCurrentMode = [id |-> "chat", webSearch |-> FALSE]
             /\ ~r.webSearch]_vars

\* the first message went out as a chat message and its generation has
\* ended; the second send, under the coding focus mode, has invoked the
\* search in academic mode
C34_Witness ==
  /\ Len(requests) = 2
  /\ requests[1].phase = "complete"
  /\ messages # << >>
  /\ messages[1].systemPromptType = "chat"
  /\ mode = "coding"
  /\ requests[2].phase = "search"
  /\ requests[2].webSearch
  /\ requests[2].searchMode = "academic"

\* C35: after any sequence of tab operations the active tab id is null or
\* the id of a tab in the tab list, and it is null only when the list is
\* empty; closing a tab that is not the active one leaves the active tab
\* unchanged.
C35_ActiveTabInList ==
  /\ [](/\ tabManager.activeTabId # "null"
           => \E i \in 1..Len(tabManager.tabs) :
                tabManager.tabs[i] = tabManager.activeTabId
        /\ tabManager.activeTabId = "null" => tabManager.tabs = << >>)
  /\ [][\A i \in 1..Len(tabManager.tabs) :
          (/\ TabManager_onCloseTab(tabManager.tabs[i])
           /\ tabManager.tabs[i] # tabManager.activeTabId)
          => tabManager'.activeTabId = tabManager.activeTabId]_vars

\* two tabs were restored and two created, the first of each was closed,
\* the created one was dragged in front of the restored one, and the
\* restored one is active
C35_Witness ==
  /\ tabManager.mounted
  /\ tabManager.created = 2
  /\ tabManager.tabs = <<"t2", "s2">>
  /\ tabManager.activeTabId = "s2"
  /\ localStorage.tabs = <<"t2", "s2">>
  /\ localStorage.activeTab = "s2"

\* C36: opening and closing the settings panel leaves the generation
\* parameters of the session unchanged, and a generation request that is
\* dispatched carries the parameters the session has at that moment, so the
\* values set earlier are the ones the next request carries.
C36_PanelKeepsParams ==
  [][/\ (toggleSettings \/ closeSettings) => modelParams' = modelParams
     /\ \A n \in 1..Len(requests') :
          (/\ requests'[n].phase = "requested"
           /\ n \in Reqs => requests[n].phase = "search")
          => requests'[n].params = modelParams]_vars

\* C37: for a daily series delivered newest first, fetchStockData returns
\* at most 30 entries, which are the most recent days of the series (all of
\* them when there are fewer than 30), each with its date and the number its
\* close text denotes; a response without daily series makes it fail.
C37_LastThirtyDays ==
  LET series == stock.data.series
      result == stock.result
      recent == IF Len(series) < LastDays THEN Len(series) ELSE LastDays
  IN
  /\ stock.state = "fulfilled" =>
       /\ stock.data.has
       /\ Len(result) = recent
       /\ \A j \in 1..recent : \E i \in 1..Len(result) :
            /\ result[i].date = series[j].date
            /\ result[i].close = ParseFloat(series[j].close)
  /\ (stock.state \in {"fulfilled", "rejected"} /\ ~stock.data.has)
       => stock.state = "rejected"

====
